---- MODULE Spec2Model ----
(***************************************************************************)
(* Model of backend/apps/scans/floorplan.py: the structured RoomPlan       *)
(* extractor, the bounding box, the SVG renderer and the fallback.         *)
(*                                                                         *)
(* Numbers.  The lengths of a document (coordinates, dimensions) are       *)
(* written as integers counted in tenths of a scan unit, so 0.8 is 8 and   *)
(* the 5 x 5 fallback square has side 50; Num(n) is the Python float of    *)
(* the JSON number n / 10.  Everything the code computes from them (the    *)
(* bounding box, the scale, the pixel values) is a Python float, an IEEE   *)
(* 754 double, computed with the rounding of each operation.               *)
(*                                                                         *)
(* JSON values.  A value read with dict.get is a field                     *)
(*    [t |-> "absent" | "null" | "list" | "str", v |-> <<...>>]            *)
(* where "absent" is a missing key and "null" is JSON null (None).  A      *)
(* JSON object is a record with t = "map"; t = "notmap" stands for any     *)
(* value without a .get method (a number, a string, null).  Strings are    *)
(* sequences of one-character strings.                                     *)
(***************************************************************************)
EXTENDS Integers, Sequences, FiniteSets, TLC

\* Longest doors / windows / objects / polygonCorners list of an enumerated input.
MaxLen == 2

\* Most calls of generate_2d_floorplan_svg that a behaviour of SpecCalls makes
\* one after the other.
MaxCalls == 3

VARIABLES
    pc,             \* position inside generate_2d_floorplan_svg
    roomplan_json,  \* the argument of the call
    floor_points,   \* local of generate_2d_floorplan_svg, line 33/36
    sections,       \* local, line 39
    doors,          \* local, line 42
    windows,        \* local, line 45
    objects,        \* local, line 48
    bbox,           \* local, line 51
    result,         \* what the call returned (or the exception that left it)
    log,            \* logger records, oldest first
    calls,          \* the calls that have returned: argument, box and result
    hull_pc,        \* position inside extract_hull_floorplan
    vertices,       \* its argument: a sequence of <<x, y, z>>
    hull_points,    \* the floor candidates, projected, sorted, without duplicates
    lower,          \* the stack of the lower chain
    upper,          \* the stack of the upper chain
    hull_i,         \* index of the next candidate of the chain under construction
    polygon,        \* the polygon it returns
    runs,           \* the polygons returned for the present argument, oldest first
    view_pc,        \* position inside views.generate_recommendations
    request,        \* its request: the session id of the URL and the body
    session_rows,   \* the ids of the RoomScanSession rows
    artifact_rows,  \* the ScanArtifact rows, oldest first
    media,          \* what the file of the RoomPlan artifact holds under MEDIA_ROOT
    floorplan_svg_url, \* local of generate_recommendations, line 178/201
    response,       \* the response of the request
    view_log,       \* logger records of the view, oldest first
    called,         \* the collaborators the request has called, how each call
                    \* ended and what it returned, oldest first
    rows_before,    \* the ScanArtifact rows when the request arrived
    total_chunks,   \* the total_chunks of the upload_artifact requests of one token
    temp_file,      \* the file <upload_token>.part: its data, oldest first
    final_file,     \* the file <upload_token><extension>
    artifact,       \* the ScanArtifact row of the token
    scan_status,    \* status of the RoomScanSession of the uploads
    uploads,        \* the chunk_index of every request served, oldest first
    upload_response, \* status code of the last upload_artifact response
    job_pc,         \* position of each start_processing request
    auto_complete,  \* the auto_complete flag of each request
    job,            \* local of each request: the row enqueue_processing_job returned
    job_rows,       \* status of the ProcessingJob rows of the session, oldest first
    session_status, \* status of the RoomScanSession row
    job_response,   \* status code of the response of each request
    req_pc,         \* position inside perenual_service._perenual_request
    max_retries,    \* its argument max_retries
    attempt,        \* its loop variable
    answers,        \* how each HTTP GET of the call ended, oldest first
    req_result,     \* what the call returned or raised
    server,         \* what the Perenual API answers to the searches and details
    lru,            \* the cache of _enrich_plant_cached, least recently used first
    events          \* the calls of enrich_plant_with_perenual and clear_cache

\* The state of generate_2d_floorplan_svg and of its callers.
floorVars == <<pc, roomplan_json, floor_points, sections, doors, windows, objects,
               bbox, result, log, calls>>

\* The state of extract_hull_floorplan and of its callers.
hullVars == <<hull_pc, vertices, hull_points, lower, upper, hull_i, polygon, runs>>

\* The state of views.generate_recommendations: its database rows, its files
\* and its request.
viewVars == <<view_pc, request, session_rows, artifact_rows, media,
              floorplan_svg_url, response, view_log, called, rows_before>>

\* The state of views.upload_artifact and services.persist_artifact_chunk for
\* the requests that share one upload_token.
uploadVars == <<total_chunks, temp_file, final_file, artifact, scan_status, uploads,
                upload_response>>

\* The state of views.start_processing and services.enqueue_processing_job for
\* the requests of one session.
jobVars == <<job_pc, auto_complete, job, job_rows, session_status, job_response>>

\* The state of a call of perenual_service._perenual_request.
requestVars == <<req_pc, max_retries, attempt, answers, req_result>>

\* The state of perenual_service.enrich_plant_with_perenual and of its cache.
enrichVars == <<server, lru, events>>

\* The state of the HTTP views and of the services behind them.
webVars == <<viewVars, uploadVars, jobVars, requestVars, enrichVars>>

\* What a step of generate_recommendations never touches.
notView == <<floorVars, hullVars, uploadVars, jobVars, requestVars, enrichVars>>

\* What a step of upload_artifact never touches.
notUpload == <<floorVars, hullVars, viewVars, jobVars, requestVars, enrichVars>>

\* What a step of start_processing never touches.
notJobs == <<floorVars, hullVars, viewVars, uploadVars, requestVars, enrichVars>>

\* What a step of _perenual_request never touches.
notRequest == <<floorVars, hullVars, viewVars, uploadVars, jobVars, enrichVars>>

\* What a call of enrich_plant_with_perenual or clear_cache never touches.
notEnrich == <<floorVars, hullVars, viewVars, uploadVars, jobVars, requestVars>>

\* What a step of generate_2d_floorplan_svg never touches.
env == <<calls, hullVars, webVars>>

vars == <<floorVars, hullVars, webVars>>

\* No request is being served.
IdleView ==
    /\ view_pc = "idle"
    /\ request = <<>>
    /\ session_rows = {}
    /\ artifact_rows = <<>>
    /\ media = "missing"
    /\ floorplan_svg_url = <<>>
    /\ response = <<>>
    /\ view_log = <<>>
    /\ called = <<>>
    /\ rows_before = <<>>

\* A path without a file, and a file with its data.
NoFile == [exists |-> FALSE, data |-> <<>>]
File(data) == [exists |-> TRUE, data |-> data]

\* No row for the token.
NoArtifact == [status |-> "none", bytes |-> 0, file |-> <<>>]

\* No upload has been made.
IdleUpload ==
    /\ total_chunks = 1
    /\ temp_file = NoFile
    /\ final_file = NoFile
    /\ artifact = NoArtifact
    /\ scan_status = "created"
    /\ uploads = <<>>
    /\ upload_response = 0

\* No start_processing request has been made.
IdleJobs ==
    /\ job_pc = <<>>
    /\ auto_complete = <<>>
    /\ job = <<>>
    /\ job_rows = <<>>
    /\ session_status = "created"
    /\ job_response = <<>>

\* No Perenual request is under way.
IdleRequest ==
    /\ req_pc = "idle"
    /\ max_retries = 0
    /\ attempt = 0
    /\ answers = <<>>
    /\ req_result = "none"

\* No plant has been enriched.
IdleEnrich ==
    /\ server = <<>>
    /\ lru = <<>>
    /\ events = <<>>

IdleWeb == IdleView /\ IdleUpload /\ IdleJobs /\ IdleRequest /\ IdleEnrich

-----------------------------------------------------------------------------
(* JSON fields and Python's handling of them *)

Absent == [t |-> "absent", v |-> <<>>]
Null == [t |-> "null", v |-> <<>>]
List(s) == [t |-> "list", v |-> s]
Str(s) == [t |-> "str", v |-> s]

\* dict.get(key, default): the default only when the key is missing.
Get(field, default) == IF field.t = "absent" THEN default ELSE field

\* Python truthiness of a field value: None and empty containers are falsy.
Truthy(field) == field.t \in {"list", "str"} /\ Len(field.v) > 0

\* len(value) raises TypeError on None.
HasLen(field) == field.t \in {"list", "str"}

\* The outcome of a piece of code: a value, or an exception that left it.
Ok(val) == [raised |-> FALSE, val |-> val]
Raise(val) == [raised |-> TRUE, val |-> val]

-----------------------------------------------------------------------------
(* Program constants, in tenths of a scan unit or in pixels *)

DOOR_DEFAULT_WIDTH == 8
WINDOW_DEFAULT_WIDTH == 10
OBJECT_DEFAULT_WIDTH == 5
OBJECT_DEFAULT_DEPTH == 5
FALLBACK_SIDE == 50
MIN_TRANSFORM_LEN == 12
SVG_WIDTH == 800
LABEL_MIN_WIDTH == 30

\* dict.get('dimensions', [0, 0, 0])
DefaultDimensions == List(<<0, 0, 0>>)

\* Variant: a unit square instead of the 5 x 5 square.
FallbackFloorPoints_unit == << <<0, 0>>, <<10, 0>>, <<10, 10>>, <<0, 10>> >>

\* line 36
FallbackFloorPoints ==
    << <<0, 0>>, <<FALLBACK_SIDE, 0>>, <<FALLBACK_SIDE, FALLBACK_SIDE>>,
       <<0, FALLBACK_SIDE>> >>

-----------------------------------------------------------------------------
(* _extract_floor_boundary, lines 64-92 *)

\* Variant: only corners with all three components are kept.
RECURSIVE CornersLoop_need3(_, _)
CornersLoop_need3(corners, points_2d) ==
    IF corners = <<>> THEN points_2d
    ELSE LET corner == Head(corners) IN
         CornersLoop_need3(Tail(corners),
                           IF Len(corner) >= 3
                           THEN Append(points_2d, <<corner[1], corner[2]>>)
                           ELSE points_2d)

RECURSIVE CornersLoop(_, _)
CornersLoop(corners, points_2d) ==
    IF corners = <<>> THEN points_2d
    ELSE LET corner == Head(corners) IN
         CornersLoop(Tail(corners),
                     IF Len(corner) >= 2
                     THEN Append(points_2d, <<corner[1], corner[2]>>)
                     ELSE points_2d)

\* The body of the try block: Raise(<<>>) is the except branch's return.
FloorBoundaryBody(json) ==
    IF json.t # "map" THEN Raise(<<>>)
    ELSE LET floors == Get(json.floors, List(<<>>)) IN
         IF ~Truthy(floors) THEN Ok(<<>>)
         ELSE LET floor == floors.v[1] IN
              IF floor.t # "map" THEN Raise(<<>>)
              ELSE LET polygon_corners == Get(floor.polygonCorners, List(<<>>)) IN
                   IF polygon_corners.t # "list" THEN Raise(<<>>)
                   ELSE Ok(CornersLoop(polygon_corners.v, <<>>))

_extract_floor_boundary(json) == FloorBoundaryBody(json)

-----------------------------------------------------------------------------
(* _extract_doors, lines 95-116 *)

DOOR_KEY == <<"d", "o", "o", "r">>

\* door.get('category', {}).get('door', {}).get('isOpen', False); category is
\* [t, key, isOpen]: key is the first key of the map (<<>> for an empty map),
\* isOpen the value under that key ("absent" when it has none).
DoorIsOpen(door) ==
    LET category == door.category IN
    IF category.t = "map" /\ category.key = DOOR_KEY THEN category.isOpen = "true"
    ELSE FALSE

\* One iteration of the loop body: the records it appends, or an exception.
DoorStep(door) ==
    IF door.t # "map" THEN Raise(<<>>)
    ELSE LET transform == Get(door.transform, List(<<>>)) IN
         IF ~HasLen(transform) THEN Raise(<<>>)
         ELSE IF Len(transform.v) >= MIN_TRANSFORM_LEN
         THEN IF Len(transform.v) < 14 THEN Raise(<<>>)
              ELSE LET dimensions == Get(door.dimensions, DefaultDimensions)
                       width == IF Truthy(dimensions) THEN dimensions.v[1]
                                ELSE DOOR_DEFAULT_WIDTH
                   IN  Ok(<< [x |-> transform.v[13], y |-> transform.v[14],
                              width |-> width, depth |-> 0,
                              isOpen |-> DoorIsOpen(door), type |-> <<>>] >>)
         ELSE Ok(<<>>)

RECURSIVE DoorsLoop(_, _)
DoorsLoop(list, acc) ==
    IF list = <<>> THEN Ok(acc)
    ELSE LET r == DoorStep(Head(list)) IN
         IF r.raised THEN Raise(acc)
         ELSE DoorsLoop(Tail(list), acc \o r.val)

\* val is the list the function returns; raised tells whether the except
\* branch ran (and logged).
_extract_doors(json) ==
    IF json.t # "map" THEN Raise(<<>>)
    ELSE LET list == Get(json.doors, List(<<>>)) IN
         IF list.t # "list" THEN Raise(<<>>)
         ELSE DoorsLoop(list.v, <<>>)

-----------------------------------------------------------------------------
(* _extract_windows, lines 119-138 *)

WindowStep(window) ==
    IF window.t # "map" THEN Raise(<<>>)
    ELSE LET transform == Get(window.transform, List(<<>>)) IN
         IF ~HasLen(transform) THEN Raise(<<>>)
         ELSE IF Len(transform.v) >= MIN_TRANSFORM_LEN
         THEN IF Len(transform.v) < 14 THEN Raise(<<>>)
              ELSE LET dimensions == Get(window.dimensions, DefaultDimensions)
                       width == IF Truthy(dimensions) THEN dimensions.v[1]
                                ELSE WINDOW_DEFAULT_WIDTH
                   IN  Ok(<< [x |-> transform.v[13], y |-> transform.v[14],
                              width |-> width, depth |-> 0,
                              isOpen |-> FALSE, type |-> <<>>] >>)
         ELSE Ok(<<>>)

RECURSIVE WindowsLoop(_, _)
WindowsLoop(list, acc) ==
    IF list = <<>> THEN Ok(acc)
    ELSE LET r == WindowStep(Head(list)) IN
         IF r.raised THEN Raise(acc)
         ELSE WindowsLoop(Tail(list), acc \o r.val)

_extract_windows(json) ==
    IF json.t # "map" THEN Raise(<<>>)
    ELSE LET list == Get(json.windows, List(<<>>)) IN
         IF list.t # "list" THEN Raise(<<>>)
         ELSE WindowsLoop(list.v, <<>>)

-----------------------------------------------------------------------------
(* _extract_objects, lines 141-168 *)

UNKNOWN == <<"u", "n", "k", "n", "o", "w", "n">>

\* next(iter(category.keys())) if category else 'unknown'
ObjectType(obj) ==
    LET category == obj.category IN
    IF category.t = "map" /\ category.key # <<>> THEN category.key ELSE UNKNOWN

\* Variant: a record with a short transform is kept at position (0, 0).
ObjectStep_zero(obj) ==
    IF obj.t # "map" THEN Raise(<<>>)
    ELSE LET transform == Get(obj.transform, List(<<>>)) IN
         IF ~HasLen(transform) THEN Raise(<<>>)
         ELSE IF Len(transform.v) >= MIN_TRANSFORM_LEN /\ Len(transform.v) < 14
         THEN Raise(<<>>)
         ELSE LET long == Len(transform.v) >= MIN_TRANSFORM_LEN
                  dimensions == Get(obj.dimensions, DefaultDimensions)
              IN  IF ~HasLen(dimensions) THEN Raise(<<>>)
                  ELSE Ok(<< [x |-> IF long THEN transform.v[13] ELSE 0,
                              y |-> IF long THEN transform.v[14] ELSE 0,
                              width |-> IF Truthy(dimensions) THEN dimensions.v[1]
                                        ELSE OBJECT_DEFAULT_WIDTH,
                              depth |-> IF Len(dimensions.v) > 2 THEN dimensions.v[3]
                                        ELSE OBJECT_DEFAULT_DEPTH,
                              isOpen |-> FALSE, type |-> ObjectType(obj)] >>)

ObjectStep(obj) ==
    IF obj.t # "map" THEN Raise(<<>>)
    ELSE LET transform == Get(obj.transform, List(<<>>)) IN
         IF ~HasLen(transform) THEN Raise(<<>>)
         ELSE IF Len(transform.v) >= MIN_TRANSFORM_LEN
         THEN IF Len(transform.v) < 14 THEN Raise(<<>>)
              ELSE LET dimensions == Get(obj.dimensions, DefaultDimensions) IN
                   \* len(dimensions) raises TypeError on None
                   IF ~HasLen(dimensions) THEN Raise(<<>>)
                   ELSE LET width == IF Truthy(dimensions) THEN dimensions.v[1]
                                     ELSE OBJECT_DEFAULT_WIDTH
                            depth == IF Len(dimensions.v) > 2 THEN dimensions.v[3]
                                     ELSE OBJECT_DEFAULT_DEPTH
                        IN  Ok(<< [x |-> transform.v[13], y |-> transform.v[14],
                                   width |-> width, depth |-> depth,
                                   isOpen |-> FALSE, type |-> ObjectType(obj)] >>)
         ELSE Ok(<<>>)

RECURSIVE ObjectsLoop(_, _)
ObjectsLoop(list, acc) ==
    IF list = <<>> THEN Ok(acc)
    ELSE LET r == ObjectStep(Head(list)) IN
         IF r.raised THEN Raise(acc)
         ELSE ObjectsLoop(Tail(list), acc \o r.val)

_extract_objects(json) ==
    IF json.t # "map" THEN Raise(<<>>)
    ELSE LET list == Get(json.objects, List(<<>>)) IN
         IF list.t # "list" THEN Raise(<<>>)
         ELSE ObjectsLoop(list.v, <<>>)

-----------------------------------------------------------------------------
(* Python float arithmetic: IEEE 754 binary64, round to nearest, ties to even *)

\* Natural numbers of any size, as little-endian sequences of 14-bit limbs
\* without a leading zero limb; <<>> is 0.  With 14 bits, a sum of four
\* products of limbs stays below 2^31.
LIMB_BITS == 14
BASE == 2^LIMB_BITS

Abs(n) == IF n < 0 THEN -n ELSE n

RECURSIVE BTrim(_)
BTrim(a) == IF a # <<>> /\ a[Len(a)] = 0 THEN BTrim(SubSeq(a, 1, Len(a) - 1)) ELSE a

RECURSIVE BFromNat(_)
BFromNat(n) == IF n = 0 THEN <<>> ELSE <<n % BASE>> \o BFromNat(n \div BASE)

RECURSIVE BToNat(_)
BToNat(a) == IF a = <<>> THEN 0 ELSE a[1] + BASE * BToNat(Tail(a))

Limb(a, i) == IF i <= Len(a) THEN a[i] ELSE 0
Rest(a) == IF a = <<>> THEN <<>> ELSE Tail(a)

RECURSIVE BAddC(_, _, _)
BAddC(a, b, carry) ==
    IF a = <<>> /\ b = <<>> THEN (IF carry = 0 THEN <<>> ELSE <<carry>>)
    ELSE LET s == Limb(a, 1) + Limb(b, 1) + carry IN
         <<s % BASE>> \o BAddC(Rest(a), Rest(b), s \div BASE)

BAdd(a, b) == BAddC(a, b, 0)

RECURSIVE BSubB(_, _, _)
BSubB(a, b, borrow) ==
    IF a = <<>> THEN <<>>
    ELSE LET d == a[1] - Limb(b, 1) - borrow IN
         <<d % BASE>> \o BSubB(Tail(a), Rest(b), IF d < 0 THEN 1 ELSE 0)

\* a - b for a >= b
BSub(a, b) == BTrim(BSubB(a, b, 0))

BLess(a, b) ==
    IF Len(a) # Len(b) THEN Len(a) < Len(b)
    ELSE \E i \in 1..Len(a) : a[i] < b[i] /\ \A j \in (i + 1)..Len(a) : a[j] = b[j]

\* a * k + carry for 0 <= k, carry < BASE
RECURSIVE BMulSmall(_, _, _)
BMulSmall(a, k, carry) ==
    IF a = <<>> THEN (IF carry = 0 THEN <<>> ELSE <<carry>>)
    ELSE LET p == a[1] * k + carry IN
         <<p % BASE>> \o BMulSmall(Tail(a), k, p \div BASE)

\* a * k for 0 <= k < BASE
BScale(a, k) == IF k = 0 THEN <<>> ELSE BMulSmall(a, k, 0)

\* a * BASE^n
BShiftLimbs(a, n) == IF a = <<>> THEN <<>> ELSE [i \in 1..n |-> 0] \o a

\* The limbs of a sequence of column sums, each below 2^31 - BASE.
RECURSIVE BCarry(_, _)
BCarry(cols, carry) ==
    IF cols = <<>> THEN (IF carry = 0 THEN <<>> ELSE <<carry>>)
    ELSE LET c == cols[1] + carry IN
         <<c % BASE>> \o BCarry(Tail(cols), c \div BASE)

\* a * b for a and b of at most 4 limbs (the mantissas of two doubles):
\* column k is the sum of the products of limbs i and j with i + j = k + 1.
BMul(a, b) ==
    IF a = <<>> \/ b = <<>> THEN <<>>
    ELSE BTrim(BCarry([k \in 1..(Len(a) + Len(b) - 1) |->
                          Limb(a, 1) * Limb(b, k)
                          + (IF k > 1 THEN Limb(a, 2) * Limb(b, k - 1) ELSE 0)
                          + (IF k > 2 THEN Limb(a, 3) * Limb(b, k - 2) ELSE 0)
                          + (IF k > 3 THEN Limb(a, 4) * Limb(b, k - 3) ELSE 0)], 0))

\* a * 2^k
BShl(a, k) == BShiftLimbs(BScale(a, 2^(k % LIMB_BITS)), k \div LIMB_BITS)

\* a \div 2^k
BShr(a, k) ==
    LET n == k \div LIMB_BITS
        r == k % LIMB_BITS
        x == IF n >= Len(a) THEN <<>> ELSE SubSeq(a, n + 1, Len(a))
    IN  BTrim([i \in 1..Len(x) |->
                 (x[i] \div 2^r) + (Limb(x, i + 1) % 2^r) * 2^(LIMB_BITS - r)])

\* a % 2^k
BLow(a, k) ==
    LET n == k \div LIMB_BITS
        r == k % LIMB_BITS
    IN  IF n >= Len(a) THEN a
        ELSE BTrim(SubSeq(a, 1, n) \o <<a[n + 1] % 2^r>>)

\* the number of bits of a limb
BitLen(n) ==
    IF n < 2^7
    THEN IF n < 2^3
         THEN (IF n < 2^1 THEN n ELSE IF n < 2^2 THEN 2 ELSE 3)
         ELSE (IF n < 2^5 THEN (IF n < 2^4 THEN 4 ELSE 5)
               ELSE (IF n < 2^6 THEN 6 ELSE 7))
    ELSE IF n < 2^11
         THEN (IF n < 2^9 THEN (IF n < 2^8 THEN 8 ELSE 9)
               ELSE (IF n < 2^10 THEN 10 ELSE 11))
         ELSE (IF n < 2^13 THEN (IF n < 2^12 THEN 12 ELSE 13)
               ELSE (IF n < 2^14 THEN 14 ELSE 15))

BBitLen(a) == IF a = <<>> THEN 0 ELSE LIMB_BITS * (Len(a) - 1) + BitLen(a[Len(a)])

BIsOdd(a) == a # <<>> /\ a[1] % 2 = 1

\* bit i of a, bit 0 the lowest
Bit(a, i) == (Limb(a, i \div LIMB_BITS + 1) \div 2^(i % LIMB_BITS)) % 2

\* One digit of a long division: st is [d, r] with x = d * b + r, and d is
\* raised until r < b.
RECURSIVE BDigitFix(_, _)
BDigitFix(b, st) ==
    IF BLess(st.r, b) THEN st
    ELSE BDigitFix(b, [d |-> st.d + 1, r |-> BSub(st.r, b)])

\* [d, r] with x = d * b + r and r < b, for x < BASE * b.  The digit is first
\* estimated from the leading LIMB_BITS bits of b, rounded up, which never
\* overestimates it and is short of it by 4 at most.
BDigit(x, b) ==
    LET Shift(len) == IF len > LIMB_BITS THEN len - LIMB_BITS ELSE 0
        Estimate(shift) ==
            IF shift = 0 THEN BToNat(x) \div BToNat(b)
            ELSE BToNat(BShr(x, shift)) \div (BToNat(BShr(b, shift)) + 1)
        Fix(est) == BDigitFix(b, [d |-> est, r |-> BSub(x, BScale(b, est))])
    IN  Fix(Estimate(Shift(BBitLen(b))))

\* Long division, one limb of a per step from limb i down; q and r are the
\* quotient and the remainder of the limbs above i.  The result has
\* a = q * b + r and r < b.
RECURSIVE BDivStep(_, _, _, _, _)
BDivStep(a, b, i, q, r) ==
    IF i = 0 THEN [q |-> q, r |-> r]
    ELSE LET Rest_(dr) == BDivStep(a, b, i - 1, BTrim(<<dr.d>> \o q), dr.r)
             Digit(x) == IF BLess(x, b) THEN Rest_([d |-> 0, r |-> x])
                         ELSE Rest_(BDigit(x, b))
         IN  Digit(BTrim(<<a[i]>> \o r))

BDivMod(a, b) == BDivStep(a, b, Len(a), <<>>, <<>>)

\* A finite double is [s, m, e]: the number (-1)^s * m * 2^e with
\* 2^52 <= m < 2^53, or zero [s = 0, m = 0, e = 0].  Subnormals, infinities
\* and NaN do not arise from the magnitudes of a room scan.
MANT_BITS == 53

FZero == [s |-> 0, m |-> <<>>, e |-> 0]

\* The double nearest to (-1)^s * (n + f) * 2^e, where 0 < f < 1 if sticky and
\* f = 0 otherwise; with sticky, n has more than MANT_BITS + 1 bits.
FRound(s, n, e, sticky) ==
    LET \* q2 is the mantissa after rounding: it may have grown by one bit
        Norm(q2, e2) ==
            IF BBitLen(q2) > MANT_BITS
            THEN [s |-> s, m |-> BShr(q2, 1), e |-> e2 + 1]
            ELSE [s |-> s, m |-> q2, e |-> e2]
        \* q is n without its k lowest bits.  Of the dropped bits: the
        \* highest one, and whether any other is set; a tie goes to even.
        Cut(k, q) ==
            Norm(IF Bit(n, k - 1) = 1
                    /\ (sticky \/ BLow(n, k - 1) # <<>> \/ BIsOdd(q))
                 THEN BAdd(q, <<1>>) ELSE q,
                 e + k)
        Fit(len) ==
            IF len <= MANT_BITS
            THEN [s |-> s, m |-> BShl(n, MANT_BITS - len), e |-> e - (MANT_BITS - len)]
            ELSE Cut(len - MANT_BITS, BShr(n, len - MANT_BITS))
    IN  IF n = <<>> THEN FZero ELSE Fit(BBitLen(n))

\* float(n) of an int
FInt(n) == FRound(IF n < 0 THEN 1 ELSE 0, BFromNat(Abs(n)), 0, FALSE)

FNeg(a) == IF a.m = <<>> THEN a ELSE [a EXCEPT !.s = 1 - a.s]

FAdd(a, b) ==
    IF a.m = <<>> THEN b
    ELSE IF b.m = <<>> THEN a
    ELSE LET \* x and y are the mantissas at the common exponent e;
             \* the sign is that of the operand of larger magnitude
             Sum(e, x, y, less) ==
                 FRound(IF a.s # b.s /\ less THEN b.s ELSE a.s,
                        IF a.s = b.s THEN BAdd(x, y)
                        ELSE IF less THEN BSub(y, x) ELSE BSub(x, y),
                        e, FALSE)
             Aligned(e, x, y) == Sum(e, x, y, BLess(x, y))
             Align(e) == Aligned(e, BShl(a.m, a.e - e), BShl(b.m, b.e - e))
         IN  Align(IF a.e < b.e THEN a.e ELSE b.e)

FSub(a, b) == FAdd(a, FNeg(b))

FMul(a, b) ==
    IF a.m = <<>> \/ b.m = <<>> THEN FZero
    ELSE FRound((a.s + b.s) % 2, BMul(a.m, b.m), a.e + b.e, FALSE)

\* a / b for b # 0
FDiv(a, b) ==
    IF a.m = <<>> THEN FZero
    ELSE LET Quotient(d) == FRound((a.s + b.s) % 2, d.q, a.e - b.e - 60, d.r # <<>>)
         IN  Quotient(BDivMod(BShl(a.m, 60), b.m))

\* a / 2
FHalf(a) == IF a.m = <<>> THEN a ELSE [a EXCEPT !.e = @ - 1]

FMagLess(a, b) ==
    IF b.m = <<>> THEN FALSE
    ELSE IF a.m = <<>> THEN TRUE
    ELSE a.e < b.e \/ (a.e = b.e /\ BLess(a.m, b.m))

FLess(a, b) ==
    IF a.s # b.s THEN a.s = 1
    ELSE IF a.s = 0 THEN FMagLess(a, b) ELSE FMagLess(b, a)

FLeq(a, b) == ~FLess(b, a)

\* int(a): truncation toward zero
FTrunc(a) ==
    IF a.m = <<>> THEN 0
    ELSE (IF a.s = 1 THEN -1 ELSE 1)
         * BToNat(IF a.e >= 0 THEN BShl(a.m, a.e) ELSE BShr(a.m, -a.e))

\* a \div k and a % k for 0 < k < BASE, one limb of a per step from limb i down
RECURSIVE BDivSmall(_, _, _, _)
BDivSmall(a, k, i, st) ==
    IF i = 0 THEN st
    ELSE LET x == st.r * BASE + a[i] IN
         BDivSmall(a, k, i - 1, [q |-> BTrim(<<x \div k>> \o st.q), r |-> x % k])

\* The float of a JSON number: the model writes the lengths of a document in
\* tenths of a scan unit, and n tenths is the number n / 10, which parses to
\* the double nearest to it.
Num(n) ==
    LET Quotient(d) == FRound(IF n < 0 THEN 1 ELSE 0, d.q, -60, d.r # 0)
        Tenth(a) == Quotient(BDivSmall(a, 10, Len(a), [q |-> <<>>, r |-> 0]))
    IN  Tenth(BShl(BFromNat(Abs(n)), 60))

-----------------------------------------------------------------------------
(* _compute_bounding_box, lines 171-201 *)

RECURSIVE SeqMin(_)
SeqMin(s) ==
    IF Len(s) = 1 THEN s[1]
    ELSE LET Least(m) == IF s[1] <= m THEN s[1] ELSE m IN Least(SeqMin(Tail(s)))

RECURSIVE SeqMax(_)
SeqMax(s) ==
    IF Len(s) = 1 THEN s[1]
    ELSE LET Greatest(m) == IF s[1] >= m THEN s[1] ELSE m IN Greatest(SeqMax(Tail(s)))

\* Variant: the objects are left out of the box.
BBoxXs_floorOnly(fp, objs) == [i \in 1..Len(fp) |-> fp[i][1]]

\* xs and ys are new lists: floor_points and objects are only read.
BBoxXs(fp, objs) == [i \in 1..Len(fp) |-> fp[i][1]] \o [i \in 1..Len(objs) |-> objs[i].x]
BBoxYs(fp, objs) == [i \in 1..Len(fp) |-> fp[i][2]] \o [i \in 1..Len(objs) |-> objs[i].y]

\* lines 193-194: (max - min) * 0.1
Padding(lo, hi) == FMul(FSub(hi, lo), Num(1))

\* <<min_x, min_y, max_x, max_y>>
_compute_bounding_box(fp, objs) ==
    IF fp = <<>> THEN <<FInt(0), FInt(0), Num(FALLBACK_SIDE), Num(FALLBACK_SIDE)>>
    ELSE LET \* lines 197-200
             Padded(min_x, max_x, min_y, max_y, padding_x, padding_y) ==
                 << FSub(min_x, padding_x), FSub(min_y, padding_y),
                    FAdd(max_x, padding_x), FAdd(max_y, padding_y) >>
             \* lines 193-194
             Extent(min_x, max_x, min_y, max_y) ==
                 Padded(min_x, max_x, min_y, max_y,
                        Padding(min_x, max_x), Padding(min_y, max_y))
             \* lines 189-190
             MinMax(xs, ys) ==
                 Extent(Num(SeqMin(xs)), Num(SeqMax(xs)), Num(SeqMin(ys)), Num(SeqMax(ys)))
         IN  MinMax(BBoxXs(fp, objs), BBoxYs(fp, objs))

-----------------------------------------------------------------------------
(* str methods used by the renderer *)

LOWER == << "a", "b", "c", "d", "e", "f", "g", "h", "i", "j", "k", "l", "m",
            "n", "o", "p", "q", "r", "s", "t", "u", "v", "w", "x", "y", "z" >>
UPPER == << "A", "B", "C", "D", "E", "F", "G", "H", "I", "J", "K", "L", "M",
            "N", "O", "P", "Q", "R", "S", "T", "U", "V", "W", "X", "Y", "Z" >>

IsUpper(c) == \E i \in 1..Len(UPPER) : UPPER[i] = c
IsLower(c) == \E i \in 1..Len(LOWER) : LOWER[i] = c
IsCased(c) == IsUpper(c) \/ IsLower(c)
ToUpper(c) == IF IsLower(c) THEN UPPER[CHOOSE i \in 1..Len(LOWER) : LOWER[i] = c] ELSE c
ToLower(c) == IF IsUpper(c) THEN LOWER[CHOOSE i \in 1..Len(UPPER) : UPPER[i] = c] ELSE c

\* [' ' + c if c.isupper() else c for c in label], joined
RECURSIVE SpaceBeforeUpper(_)
SpaceBeforeUpper(s) ==
    IF s = <<>> THEN <<>>
    ELSE (IF IsUpper(Head(s)) THEN <<" ", Head(s)>> ELSE <<Head(s)>>)
         \o SpaceBeforeUpper(Tail(s))

RECURSIVE LStrip(_)
LStrip(s) == IF s # <<>> /\ Head(s) = " " THEN LStrip(Tail(s)) ELSE s

RECURSIVE RStrip(_)
RStrip(s) ==
    IF s # <<>> /\ s[Len(s)] = " " THEN RStrip(SubSeq(s, 1, Len(s) - 1)) ELSE s

Strip(s) == RStrip(LStrip(s))

\* str.title(): a cased character is upper-cased after an uncased one (or at the
\* start) and lower-cased after a cased one.
RECURSIVE TitleFrom(_, _)
TitleFrom(s, prev_cased) ==
    IF s = <<>> THEN <<>>
    ELSE LET c == Head(s) IN
         <<IF ~IsCased(c) THEN c ELSE IF prev_cased THEN ToLower(c) ELSE ToUpper(c)>>
         \o TitleFrom(Tail(s), IsCased(c))

Title(s) == TitleFrom(s, FALSE)

\* str.capitalize(): first character upper-cased, the rest lower-cased.
Capitalize(s) ==
    IF s = <<>> THEN <<>>
    ELSE <<ToUpper(Head(s))>> \o [i \in 1..(Len(s) - 1) |-> ToLower(s[i + 1])]

\* line 254-255
FormatLabel(label) == Title(Strip(SpaceBeforeUpper(label)))

-----------------------------------------------------------------------------
(* _render_svg, lines 204-308, and _generate_fallback_svg, lines 311-322 *)

\* An SVG document is [kind, width, height, viewBox, parts]; parts holds one
\* record per element after the opening <svg> tag, in the order of the text.
Part(tag, x, y, w, h, fill, text, points) ==
    [tag |-> tag, x |-> x, y |-> y, w |-> w, h |-> h, fill |-> fill,
     text |-> text, points |-> points]

NoText == <<>>
NoPoints == <<>>

ROOM == <<"r", "o", "o", "m">>
BED == <<"b", "e", "d">>
SOFA == <<"s", "o", "f", "a">>
CHAIR == <<"c", "h", "a", "i", "r">>
TABLE == <<"t", "a", "b", "l", "e">>
STORAGE == <<"s", "t", "o", "r", "a", "g", "e">>
CABINET == <<"c", "a", "b", "i", "n", "e", "t">>

\* Variant: no canvas at all for a box without width.
SvgHeight_noCanvas(box) ==
    LET Height(width, height) ==
            IF FLess(FZero, width)
            THEN FTrunc(FMul(FInt(SVG_WIDTH), FDiv(height, width)))
            ELSE 0
    IN  Height(FSub(box[3], box[1]), FSub(box[4], box[2]))
\* lines 213-218: the canvas of a bounding box
SvgHeight(box) ==
    LET Height(width, height) ==
            IF FLess(FZero, width)
            THEN FTrunc(FMul(FInt(SVG_WIDTH), FDiv(height, width)))
            ELSE SVG_WIDTH
    IN  Height(FSub(box[3], box[1]), FSub(box[4], box[2]))

\* lines 221-222: pixels per scan unit
ScaleX(box) ==
    LET Scale(width) ==
            IF FLess(FZero, width) THEN FDiv(FInt(SVG_WIDTH), width) ELSE FInt(1)
    IN  Scale(FSub(box[3], box[1]))

ScaleY(box, svg_height) ==
    LET Scale(height) ==
            IF FLess(FZero, height) THEN FDiv(FInt(svg_height), height) ELSE FInt(1)
    IN  Scale(FSub(box[4], box[2]))

\* lines 212-222: the locals that the rest of _render_svg reads
Frame(box) ==
    LET Locals(svg_height) ==
            [min_x |-> box[1], min_y |-> box[2],
             svg_width |-> SVG_WIDTH, svg_height |-> svg_height,
             scale_x |-> ScaleX(box), scale_y |-> ScaleY(box, svg_height)]
    IN  Locals(SvgHeight(box))

\* lines 224-228, a closure over the locals of _render_svg; x and y in tenths
transform_point(x, y, fr) ==
    << FMul(FSub(Num(x), fr.min_x), fr.scale_x),
       FMul(FSub(Num(y), fr.min_y), fr.scale_y) >>

\* lines 240-244
FloorPolygon(fp, fr) ==
    IF fp = <<>> THEN <<>>
    ELSE << Part("polygon", FInt(0), FInt(0), FInt(0), FInt(0), "white", NoText,
                 [i \in 1..Len(fp) |-> transform_point(fp[i][1], fp[i][2], fr)]) >>

\* Variant: an entry the loop cannot read is skipped instead of raising.
SectionStep_skip(section, fr) == Ok(<<>>)

\* lines 248-260: one iteration of the section loop
SectionStep(section, fr) ==
    IF section.t # "map" THEN Raise(<<>>)
    ELSE LET center == Get(section.center, List(<<>>)) IN
         IF ~HasLen(center) THEN Raise(<<>>)
         ELSE IF Len(center.v) >= 2
         THEN LET Marker(p, label) ==
                      IF label.t # "str" THEN Raise(<<>>)
                      ELSE Ok(<< Part("circle", p[1], p[2], FInt(3), FInt(3), "#349552",
                                      NoText, NoPoints),
                                 Part("text", p[1], FSub(p[2], FInt(10)), FInt(0),
                                      FInt(14), "#191919", FormatLabel(label.v),
                                      NoPoints) >>)
              IN  Marker(transform_point(center.v[1], center.v[2], fr),
                         Get(section.label, Str(ROOM)))
         ELSE Ok(<<>>)

RECURSIVE SectionsLoop(_, _, _)
SectionsLoop(list, fr, acc) ==
    IF list = <<>> THEN Ok(acc)
    ELSE LET Continue(r) ==
                 IF r.raised THEN Raise(acc)
                 ELSE SectionsLoop(Tail(list), fr, acc \o r.val)
         IN  Continue(SectionStep(Head(list), fr))

\* line 247: iterating a value that is not a list raises TypeError
SectionParts(secs, fr) ==
    IF secs.t # "list" THEN Raise(<<>>) ELSE SectionsLoop(secs.v, fr, <<>>)

\* Variant: the doors are drawn with the Y axis pointing up.
DoorGlyph_flipped(door, fr) ==
    LET color == IF door.isOpen THEN "#35B0FE" ELSE "#F17F38"
        Rect(p, door_width) ==
            Part("rect", FSub(p[1], FHalf(door_width)),
                 FSub(FSub(FInt(fr.svg_height), p[2]), FInt(5)),
                 door_width, FInt(10), color, NoText, NoPoints)
    IN  Rect(transform_point(door.x, door.y, fr), FMul(Num(door.width), fr.scale_x))

\* lines 263-269
DoorGlyph(door, fr) ==
    LET color == IF door.isOpen THEN "#35B0FE" ELSE "#F17F38"
        Rect(p, door_width) ==
            Part("rect", FSub(p[1], FHalf(door_width)), FSub(p[2], FInt(5)),
                 door_width, FInt(10), color, NoText, NoPoints)
    IN  Rect(transform_point(door.x, door.y, fr), FMul(Num(door.width), fr.scale_x))

\* lines 272-277
WindowGlyph(window, fr) ==
    LET Rect(p, win_width) ==
            Part("rect", FSub(p[1], FHalf(win_width)), FSub(p[2], FInt(3)),
                 win_width, FInt(6), "#07C0C3", NoText, NoPoints)
    IN  Rect(transform_point(window.x, window.y, fr),
             FMul(Num(window.width), fr.scale_x))

\* lines 286-293
ObjectColor(obj_type) ==
    IF obj_type \in {BED, SOFA, CHAIR} THEN "#E8F5E9"
    ELSE IF obj_type \in {TABLE} THEN "#FFF3E0"
    ELSE IF obj_type \in {STORAGE, CABINET} THEN "#E3F2FD"
    ELSE "#D9D9D9"

\* lines 280-304: the rect, and the label of a wide object
ObjectGlyph(obj, fr) ==
    LET RectAndLabel(p, obj_width, obj_depth) ==
            << Part("rect", FSub(p[1], FHalf(obj_width)), FSub(p[2], FHalf(obj_depth)),
                    obj_width, obj_depth, ObjectColor(obj.type), NoText, NoPoints) >>
            \o (IF FLess(FInt(LABEL_MIN_WIDTH), obj_width)
                THEN << Part("text", p[1], p[2], FInt(0), FInt(10), "#191919",
                             Capitalize(obj.type), NoPoints) >>
                ELSE <<>>)
    IN  RectAndLabel(transform_point(obj.x, obj.y, fr),
                     FMul(Num(obj.width), fr.scale_x),
                     FMul(Num(obj.depth), fr.scale_y))

RECURSIVE Flatten(_)
Flatten(ss) == IF ss = <<>> THEN <<>> ELSE Head(ss) \o Flatten(Tail(ss))

\* Variant: the windows are drawn before the doors.
_render_svg_windowsFirst(fp, secs, ds, ws, objs, box) ==
    LET \* fr holds the locals of lines 212-222, sec the parts of the section loop
        Svg(fr, sec) ==
            IF sec.raised THEN Raise(<<>>)
            ELSE Ok([kind |-> "rendered",
                     width |-> fr.svg_width,
                     height |-> fr.svg_height,
                     viewBox |-> <<0, 0, fr.svg_width, fr.svg_height>>,
                     parts |->
                        << Part("rect", FInt(0), FInt(0), FInt(fr.svg_width),
                                FInt(fr.svg_height), "#FCF7F4", NoText, NoPoints) >>
                        \o FloorPolygon(fp, fr)
                        \o sec.val
                        \o [i \in 1..Len(ws) |-> WindowGlyph(ws[i], fr)]
                        \o [i \in 1..Len(ds) |-> DoorGlyph(ds[i], fr)]
                        \o Flatten([i \in 1..Len(objs) |-> ObjectGlyph(objs[i], fr)])])
        Drawn(fr) == Svg(fr, SectionParts(secs, fr))
    IN  Drawn(Frame(box))

\* The document, or the exception of the section loop.
_render_svg(fp, secs, ds, ws, objs, box) ==
    LET \* fr holds the locals of lines 212-222, sec the parts of the section loop
        Svg(fr, sec) ==
            IF sec.raised THEN Raise(<<>>)
            ELSE Ok([kind |-> "rendered",
                     width |-> fr.svg_width,
                     height |-> fr.svg_height,
                     viewBox |-> <<0, 0, fr.svg_width, fr.svg_height>>,
                     parts |->
                        << Part("rect", FInt(0), FInt(0), FInt(fr.svg_width),
                                FInt(fr.svg_height), "#FCF7F4", NoText, NoPoints) >>
                        \o FloorPolygon(fp, fr)
                        \o sec.val
                        \o [i \in 1..Len(ds) |-> DoorGlyph(ds[i], fr)]
                        \o [i \in 1..Len(ws) |-> WindowGlyph(ws[i], fr)]
                        \o Flatten([i \in 1..Len(objs) |-> ObjectGlyph(objs[i], fr)])])
        Drawn(fr) == Svg(fr, SectionParts(secs, fr))
    IN  Drawn(Frame(box))

_generate_fallback_svg ==
    [kind |-> "fallback",
     width |-> 400,
     height |-> 400,
     viewBox |-> <<0, 0, 400, 400>>,
     parts |->
        << Part("rect", FInt(0), FInt(0), FInt(400), FInt(400), "#FCF7F4", NoText, NoPoints),
           Part("rect", FInt(50), FInt(50), FInt(300), FInt(300), "white", NoText, NoPoints),
           Part("text", FInt(200), FInt(200), FInt(0), FInt(16), "#191919",
                <<"Room Floorplan">>, NoPoints),
           Part("text", FInt(200), FInt(220), FInt(0), FInt(12), "#999",
                <<"(Visualization unavailable)">>, NoPoints) >>]

-----------------------------------------------------------------------------
(* The inputs of a call: RoomPlan documents, well-formed and malformed *)

NoCategory == [t |-> "absent", key |-> <<>>, isOpen |-> "absent"]
Category(key, isOpen) == [t |-> "map", key |-> key, isOpen |-> isOpen]

\* A door, window or object record.
Record(transform, dimensions, category) ==
    [t |-> "map", transform |-> transform, dimensions |-> dimensions,
     category |-> category]

\* An entry of a doors / windows / objects list that is not a JSON object.
NotARecord ==
    [t |-> "notmap", transform |-> Absent, dimensions |-> Absent,
     category |-> NoCategory]

\* A flattened transform of n entries whose entries 12 and 13 (counted from 0)
\* are x and y, as far as it has them.
Transform(n, x, y) ==
    List([i \in 1..n |-> IF i = 13 THEN x ELSE IF i = 14 THEN y ELSE 0])

FullDimensions == List(<<9, 20, 1>>)

GoodRecord == Record(Transform(16, 20, 15), FullDimensions, Category(DOOR_KEY, "true"))

Records ==
    { NotARecord }
    \cup { Record(Transform(n, 20, 15), FullDimensions, Category(DOOR_KEY, "true"))
           : n \in {11, 12, 13, 14} }
    \cup { Record(Absent, FullDimensions, Category(SOFA, "absent")),
           Record(Transform(16, 5, 25), Absent, NoCategory),
           Record(Transform(16, 5, 25), List(<<>>), Category(DOOR_KEY, "false")),
           Record(Transform(16, 60, -10), Null, Category(TABLE, "absent")),
           Record(Transform(16, 60, -10), List(<<6>>), Category(<<>>, "absent")) }

RECURSIVE SeqsUpTo(_, _)
SeqsUpTo(S, n) ==
    IF n = 0 THEN { <<>> }
    ELSE LET shorter == SeqsUpTo(S, n - 1) IN
         shorter \cup { Append(q, e) : q \in { r \in shorter : Len(r) = n - 1 }, e \in S }

Floor(corners) == [t |-> "map", polygonCorners |-> corners]
NotAFloor == [t |-> "notmap", polygonCorners |-> Absent]

Section(center, label) == [t |-> "map", center |-> center, label |-> label]
NotASection == [t |-> "notmap", center |-> Absent, label |-> Absent]

Document(floors, secs, ds, ws, objs) ==
    [t |-> "map", floors |-> floors, sections |-> secs, doors |-> ds,
     windows |-> ws, objects |-> objs]

\* An argument that is not a mapping at all.
NotADocument ==
    [t |-> "notmap", floors |-> Absent, sections |-> Absent, doors |-> Absent,
     windows |-> Absent, objects |-> Absent]

RectCorners == << <<0, 0, 0>>, <<40, 0, 0>>, <<40, 30, 0>>, <<0, 30, 0>> >>
RectFloors == List(<< Floor(List(RectCorners)) >>)

LIVING_ROOM == <<"l", "i", "v", "i", "n", "g", "R", "o", "o", "m">>
GoodSection == Section(List(<<10, 10, 0>>), Str(LIVING_ROOM))
GoodSections == List(<< GoodSection, Section(List(<<30, 20>>), Absent) >>)

FarRecord == Record(Transform(16, 60, -10), List(<<12, 8, 7>>), Category(SOFA, "absent"))
ShortRecord == Record(Transform(12, 20, 15), FullDimensions, Category(DOOR_KEY, "true"))

\* The lists of records of a kind: every list of the records that decide
\* whether the extraction appends, skips or raises, and every record alone,
\* before and after a record that is extracted.
CoreRecords ==
    { NotARecord }
    \cup { Record(Transform(n, 20, 15), FullDimensions, Category(DOOR_KEY, "true"))
           : n \in {11, 13, 14} }
RecordLists ==
    SeqsUpTo(CoreRecords, MaxLen)
    \cup { <<r>> : r \in Records }
    \cup { <<GoodRecord, r>> : r \in Records }
    \cup { <<r, GoodRecord>> : r \in Records }

\* Documents in which one element kind ranges over RecordLists.
DoorDocs ==
    { Document(RectFloors, GoodSections, List(l), List(<<GoodRecord>>), List(<<FarRecord>>))
      : l \in RecordLists }
WindowDocs ==
    { Document(RectFloors, GoodSections, List(<<GoodRecord>>), List(l), List(<<FarRecord>>))
      : l \in RecordLists }
ObjectDocs ==
    { Document(RectFloors, GoodSections, List(<<GoodRecord>>), List(<<GoodRecord>>), List(l))
      : l \in RecordLists }

\* Documents whose first floor ranges over every corner list.
Corners == { <<0, 0, 0>>, <<40, 30, 0>>, <<0, 30>>, <<40>>, <<>> }
FloorDocs ==
    { Document(List(<< Floor(List(cs)) >> \o rest), Absent, Absent, Absent, objs)
      : cs \in SeqsUpTo(Corners, MaxLen),
        rest \in { <<>>, << Floor(List(RectCorners)) >> },
        objs \in { Absent, List(<<FarRecord>>) } }

\* Documents that combine absent, well-formed and malformed parts.
FloorsChoices ==
    { Absent, Null, List(<<>>), RectFloors, List(<< NotAFloor >>),
      List(<< Floor(Absent) >>), List(<< Floor(Null) >>) }
SectionsChoices ==
    { Absent, Null, GoodSections, List(<< GoodSection, NotASection >>),
      List(<< Section(List(<<10>>), Str(ROOM)), Section(Null, Absent) >>),
      List(<< Section(List(<<10, 10>>), Null) >>) }
ListChoices ==
    { Absent, Null, List(<<GoodRecord, FarRecord>>), List(<<GoodRecord, ShortRecord>>) }
MixedDocs ==
    { Document(f, s, List(<<GoodRecord>>), List(<<GoodRecord>>), List(<<FarRecord>>))
      : f \in FloorsChoices, s \in SectionsChoices }
    \cup { Document(f, s, d, w, o)
            : f \in { RectFloors, List(<<>>) }, s \in { GoodSections, Absent },
              d \in ListChoices, w \in ListChoices, o \in ListChoices }
    \cup { Document(RectFloors, s, d, d, o)
            : s \in SectionsChoices, d \in ListChoices, o \in ListChoices }

\* A floor three times as wide as deep, and nothing else.
WideCorners == << <<0, 0, 0>>, <<30, 0, 0>>, <<30, 10, 0>>, <<0, 10, 0>> >>
WideDoc == Document(List(<< Floor(List(WideCorners)) >>), Absent, Absent, Absent, Absent)

Documents ==
    { NotADocument, WideDoc } \cup DoorDocs \cup WindowDocs \cup ObjectDocs
    \cup FloorDocs \cup MixedDocs

-----------------------------------------------------------------------------
(* generate_2d_floorplan_svg, lines 14-61 *)

NoSvg == [kind |-> "none", width |-> 0, height |-> 0, viewBox |-> <<0, 0, 0, 0>>,
          parts |-> <<>>]
NoResult == [status |-> "none", svg |-> NoSvg]
Returned(svg) == [status |-> "returned", svg |-> svg]
\* An exception that leaves the function.
Propagated == [status |-> "raised", svg |-> NoSvg]

\* Variant: the handler lets the exception through.
TopLevelExcept_reraise == Propagated

\* lines 58-61: the handler of the outer try
TopLevelExcept == Returned(_generate_fallback_svg)

LogIf(cond, msg) == IF cond THEN <<msg>> ELSE <<>>

Init ==
    /\ pc = "idle"
    /\ roomplan_json = NotADocument
    /\ floor_points = <<>>
    /\ sections = Absent
    /\ doors = <<>>
    /\ windows = <<>>
    /\ objects = <<>>
    /\ bbox = <<FZero, FZero, FZero, FZero>>
    /\ result = NoResult
    /\ log = <<>>
    /\ calls = <<>>
    /\ hull_pc = "idle"
    /\ vertices = <<>>
    /\ hull_points = <<>>
    /\ lower = <<>>
    /\ upper = <<>>
    /\ hull_i = 0
    /\ polygon = <<>>
    /\ runs = <<>>
    /\ IdleWeb

\* No call of generate_2d_floorplan_svg or extract_hull_floorplan is under way.
IdleFloorplan ==
    /\ pc = "idle"
    /\ roomplan_json = NotADocument
    /\ floor_points = <<>>
    /\ sections = Absent
    /\ doors = <<>>
    /\ windows = <<>>
    /\ objects = <<>>
    /\ bbox = <<FZero, FZero, FZero, FZero>>
    /\ result = NoResult
    /\ log = <<>>
    /\ calls = <<>>
    /\ hull_pc = "idle"
    /\ vertices = <<>>
    /\ hull_points = <<>>
    /\ lower = <<>>
    /\ upper = <<>>
    /\ hull_i = 0
    /\ polygon = <<>>
    /\ runs = <<>>

\* A caller invokes the function with some document.
Call ==
    /\ pc = "idle"
    /\ \E d \in Documents : roomplan_json' = d
    /\ pc' = "floor"
    /\ UNCHANGED <<floor_points, sections, doors, windows, objects, bbox, result, log>>
    /\ UNCHANGED env

\* lines 33-36
StepFloor ==
    /\ pc = "floor"
    /\ LET r == _extract_floor_boundary(roomplan_json) IN
       /\ floor_points' = IF r.val = <<>> THEN FallbackFloorPoints ELSE r.val
       /\ log' = log \o LogIf(r.raised, "error: floor boundary")
                     \o LogIf(r.val = <<>>, "warning: no floor boundary")
    /\ pc' = "sections"
    /\ UNCHANGED <<roomplan_json, sections, doors, windows, objects, bbox, result>>
    /\ UNCHANGED env

\* line 39; roomplan_json.get raises AttributeError when the argument is no mapping
StepSections ==
    /\ pc = "sections"
    /\ IF roomplan_json.t = "map"
       THEN /\ sections' = Get(roomplan_json.sections, List(<<>>))
            /\ pc' = "doors"
            /\ UNCHANGED <<result, log>>
       ELSE /\ result' = TopLevelExcept
            /\ log' = Append(log, "error: generate")
            /\ pc' = "done"
            /\ UNCHANGED sections
    /\ UNCHANGED <<roomplan_json, floor_points, doors, windows, objects, bbox>>
    /\ UNCHANGED env

\* Variant: _extract_doors without its try block, so that its exception
\* reaches the outer handler.
StepDoors_unguarded ==
    /\ pc = "doors"
    /\ LET r == _extract_doors(roomplan_json) IN
       IF r.raised
       THEN /\ result' = TopLevelExcept
            /\ log' = Append(log, "error: generate")
            /\ pc' = "done"
            /\ UNCHANGED doors
       ELSE /\ doors' = r.val
            /\ pc' = "windows"
            /\ UNCHANGED <<result, log>>
    /\ UNCHANGED <<roomplan_json, floor_points, sections, windows, objects, bbox>>
    /\ UNCHANGED env

\* Variant: the list of doors outlives the call (a list created once and
\* appended to by every call).
StepDoors_stale ==
    /\ pc = "doors"
    /\ LET r == _extract_doors(roomplan_json) IN
       /\ doors' = doors \o r.val
       /\ log' = log \o LogIf(r.raised, "error: doors")
    /\ pc' = "windows"
    /\ UNCHANGED <<roomplan_json, floor_points, sections, windows, objects, bbox, result>>
    /\ UNCHANGED env

\* line 42
StepDoors ==
    /\ pc = "doors"
    /\ LET r == _extract_doors(roomplan_json) IN
       /\ doors' = r.val
       /\ log' = log \o LogIf(r.raised, "error: doors")
    /\ pc' = "windows"
    /\ UNCHANGED <<roomplan_json, floor_points, sections, windows, objects, bbox, result>>
    /\ UNCHANGED env

\* line 45
StepWindows ==
    /\ pc = "windows"
    /\ LET r == _extract_windows(roomplan_json) IN
       /\ windows' = r.val
       /\ log' = log \o LogIf(r.raised, "error: windows")
    /\ pc' = "objects"
    /\ UNCHANGED <<roomplan_json, floor_points, sections, doors, objects, bbox, result>>
    /\ UNCHANGED env

\* line 48
StepObjects ==
    /\ pc = "objects"
    /\ LET r == _extract_objects(roomplan_json) IN
       /\ objects' = r.val
       /\ log' = log \o LogIf(r.raised, "error: objects")
    /\ pc' = "bbox"
    /\ UNCHANGED <<roomplan_json, floor_points, sections, doors, windows, bbox, result>>
    /\ UNCHANGED env

\* Variant: the object positions are appended to the floor points themselves.
StepBBox_appending ==
    /\ pc = "bbox"
    /\ bbox' = _compute_bounding_box(floor_points, objects)
    /\ floor_points' = floor_points \o [i \in 1..Len(objects) |-> <<objects[i].x, objects[i].y>>]
    /\ pc' = "render"
    /\ UNCHANGED <<roomplan_json, sections, doors, windows, objects, result, log>>
    /\ UNCHANGED env

\* Variant: the doors take part in the bounding box.
StepBBox_withDoors ==
    /\ pc = "bbox"
    /\ bbox' = _compute_bounding_box(floor_points, objects \o doors)
    /\ pc' = "render"
    /\ UNCHANGED <<roomplan_json, floor_points, sections, doors, windows, objects,
                   result, log>>
    /\ UNCHANGED env
\* line 51
StepBBox ==
    /\ pc = "bbox"
    /\ bbox' = _compute_bounding_box(floor_points, objects)
    /\ pc' = "render"
    /\ UNCHANGED <<roomplan_json, floor_points, sections, doors, windows, objects,
                   result, log>>
    /\ UNCHANGED env

\* lines 54-56, or the handler when rendering raises
StepRender ==
    /\ pc = "render"
    /\ \E r \in { _render_svg(floor_points, sections, doors, windows, objects, bbox) } :
       IF r.raised
       THEN /\ result' = TopLevelExcept
            /\ log' = Append(log, "error: generate")
       ELSE /\ result' = Returned(r.val)
            /\ UNCHANGED log
    /\ pc' = "done"
    /\ UNCHANGED <<roomplan_json, floor_points, sections, doors, windows, objects, bbox>>
    /\ UNCHANGED env

Next ==
    \/ Call
    \/ StepFloor
    \/ StepSections
    \/ StepDoors
    \/ StepWindows
    \/ StepObjects
    \/ StepBBox
    \/ StepRender

Spec == Init /\ [][Next]_vars

\* The documents of the calls that follow one another: documents that differ
\* in one part only (doors, windows, sections, objects), one of them with
\* malformed section data, and an argument that is no mapping.
CallDocs ==
    { NotADocument }
    \cup { Document(RectFloors, GoodSections, List(d), List(<<GoodRecord>>), Absent)
           : d \in { <<GoodRecord>>, <<FarRecord>> } }
    \cup { Document(RectFloors, GoodSections, List(<<GoodRecord>>), Absent, Absent),
           Document(RectFloors, List(<< GoodSection, NotASection >>),
                    List(<<GoodRecord>>), List(<<GoodRecord>>), Absent),
           Document(RectFloors, GoodSections, List(<<GoodRecord>>), List(<<GoodRecord>>),
                    List(<<FarRecord>>)) }

\* One more call, after the calls that returned.
CallAgain ==
    /\ pc = "idle"
    /\ Len(calls) < MaxCalls
    /\ \E d \in CallDocs : roomplan_json' = d
    /\ pc' = "floor"
    /\ UNCHANGED <<floor_points, sections, doors, windows, objects, bbox, result, log>>
    /\ UNCHANGED env

\* lines 56 / 61: the call returns to its caller.  Nothing of the call is
\* kept by the module: its locals die with the frame, and the model leaves
\* them as they are until the next call assigns them.
Return ==
    /\ pc = "done"
    /\ calls' = Append(calls, [roomplan_json |-> roomplan_json, bbox |-> bbox,
                               result |-> result])
    /\ pc' = "idle"
    /\ UNCHANGED <<roomplan_json, floor_points, sections, doors, windows, objects,
                   bbox, result, log>>
    /\ UNCHANGED <<hullVars, webVars>>

NextCalls ==
    \/ CallAgain
    \/ StepFloor
    \/ StepSections
    \/ StepDoors
    \/ StepWindows
    \/ StepObjects
    \/ StepBBox
    \/ StepRender
    \/ Return

\* Calls of generate_2d_floorplan_svg one after the other.
SpecCalls == Init /\ [][NextCalls]_vars

-----------------------------------------------------------------------------
(* The point-cloud extractor: floor-level filter and convex hull *)

\* Coordinates are in hundredths of a scan unit.
FLOOR_TOLERANCE == 5
MIN_FLOOR_POINTS == 4

\* Most vertices at floor level of an argument, and most runs on one argument.
MaxPoints == 4
MaxRuns == 2

ButLast(s) == SubSeq(s, 1, Len(s) - 1)

\* The j-th smallest element of a set of indices.
KthIndex(S, j) == CHOOSE i \in S : Cardinality({ h \in S : h <= i }) = j

\* A sequence of integers in ascending order.
RECURSIVE InsertSorted(_, _)
InsertSorted(s, z) ==
    IF s = <<>> THEN <<z>>
    ELSE IF z <= Head(s) THEN <<z>> \o s
    ELSE <<Head(s)>> \o InsertSorted(Tail(s), z)

RECURSIVE SortedZ(_)
SortedZ(vs) == IF vs = <<>> THEN <<>> ELSE InsertSorted(SortedZ(Tail(vs)), Head(vs)[3])

\* Four times the 25th percentile of an ascending sequence zs (linear
\* interpolation between the two nearest ranks).
Percentile25x4(zs) ==
    LET Between(lo, r) ==
            (4 - r) * zs[lo + 1] + r * zs[IF lo + 2 <= Len(zs) THEN lo + 2 ELSE lo + 1]
    IN  Between((Len(zs) - 1) \div 4, (Len(zs) - 1) % 4)

\* The vertices with z <= q + 0.05.
Retained(vs) ==
    LET AtFloor(q4) ==
            LET Low(v) == 4 * v[3] <= q4 + 4 * FLOOR_TOLERANCE IN SelectSeq(vs, Low)
    IN  AtFloor(Percentile25x4(SortedZ(vs)))

\* All vertices when fewer than four survive the filter.
FloorCandidates(vs) ==
    LET Enough(kept) == IF Len(kept) < MIN_FLOOR_POINTS THEN vs ELSE kept
    IN  Enough(Retained(vs))

Project(vs) == { <<vs[k][1], vs[k][2]>> : k \in 1..Len(vs) }

LexLeq(p, q) == p[1] < q[1] \/ (p[1] = q[1] /\ p[2] <= q[2])

\* The points of a set sorted by (x, y).
RECURSIVE SortPoints(_)
SortPoints(S) ==
    IF S = {} THEN <<>>
    ELSE LET First(m) == <<m>> \o SortPoints(S \ {m})
         IN  First(CHOOSE p \in S : \A q \in S : LexLeq(p, q))

cross(o, a, b) == (a[1] - o[1]) * (b[2] - o[2]) - (a[2] - o[2]) * (b[1] - o[1])

\* Variant: only a right turn is popped, collinear points stay on the chain.
NonLeftTurn_strict(o, a, b) == cross(o, a, b) < 0

\* The last two points of the stack and the candidate make a non-left turn.
NonLeftTurn(o, a, b) == cross(o, a, b) <= 0

\* while the stack ends in a non-left turn: pop; then push the candidate
RECURSIVE Push(_, _)
Push(stack, p) ==
    IF Len(stack) >= 2 /\ NonLeftTurn(stack[Len(stack) - 1], stack[Len(stack)], p)
    THEN Push(ButLast(stack), p)
    ELSE Append(stack, p)

\* The arguments: vertices at floor level taken from a small grid in
\* ascending or descending order, the first of them possibly repeated, and
\* possibly one vertex far above the floor, outside or inside the others.
HullGrid == << <<0, 0>>, <<100, 0>>, <<200, 0>>, <<100, 100>>, <<0, 200>>, <<200, 200>> >>
HighVertices == { <<>>, << <<300, 300, 250>> >>, << <<100, 100, 250>> >> }

FloorVertices(I, descending) ==
    [k \in 1..Cardinality(I) |->
        LET At(n) == << HullGrid[n][1], HullGrid[n][2], 0 >>
        IN  At(KthIndex(I, IF descending THEN Cardinality(I) + 1 - k ELSE k))]

VertexLists ==
    { FloorVertices(I, d) \o (IF r THEN << FloorVertices(I, d)[1] >> ELSE <<>>) \o h
      : I \in { J \in SUBSET (1..Len(HullGrid)) : J # {} /\ Cardinality(J) <= MaxPoints },
        d \in BOOLEAN, r \in BOOLEAN, h \in HighVertices }

InitHull ==
    /\ pc = "idle"
    /\ roomplan_json = NotADocument
    /\ floor_points = <<>>
    /\ sections = Absent
    /\ doors = <<>>
    /\ windows = <<>>
    /\ objects = <<>>
    /\ bbox = <<FZero, FZero, FZero, FZero>>
    /\ result = NoResult
    /\ log = <<>>
    /\ calls = <<>>
    /\ hull_pc = "start"
    /\ vertices \in VertexLists
    /\ hull_points = <<>>
    /\ lower = <<>>
    /\ upper = <<>>
    /\ hull_i = 0
    /\ polygon = <<>>
    /\ runs = <<>>
    /\ IdleWeb

\* Filter, project, sort and deduplicate; at most one distinct point is
\* returned as it is.
HullFilter ==
    /\ hull_pc = "start"
    /\ \E sorted \in { SortPoints(Project(FloorCandidates(vertices))) } :
          /\ hull_points' = sorted
          /\ IF Len(sorted) <= 1
             THEN /\ polygon' = sorted
                  /\ hull_pc' = "return"
                  /\ UNCHANGED <<lower, upper, hull_i>>
             ELSE /\ lower' = <<>>
                  /\ upper' = <<>>
                  /\ hull_i' = 1
                  /\ hull_pc' = "lower"
                  /\ UNCHANGED polygon
    /\ UNCHANGED <<vertices, runs>>
    /\ UNCHANGED <<floorVars, webVars>>

\* One candidate of the lower chain, in sorted order.
HullLower ==
    /\ hull_pc = "lower"
    /\ IF hull_i <= Len(hull_points)
       THEN /\ lower' = Push(lower, hull_points[hull_i])
            /\ hull_i' = hull_i + 1
            /\ UNCHANGED hull_pc
       ELSE /\ hull_i' = Len(hull_points)
            /\ hull_pc' = "upper"
            /\ UNCHANGED lower
    /\ UNCHANGED <<vertices, hull_points, upper, polygon, runs>>
    /\ UNCHANGED <<floorVars, webVars>>

\* One candidate of the upper chain, in reverse sorted order.
HullUpper ==
    /\ hull_pc = "upper"
    /\ IF hull_i >= 1
       THEN /\ upper' = Push(upper, hull_points[hull_i])
            /\ hull_i' = hull_i - 1
            /\ UNCHANGED hull_pc
       ELSE /\ hull_pc' = "concat"
            /\ UNCHANGED <<upper, hull_i>>
    /\ UNCHANGED <<vertices, hull_points, lower, polygon, runs>>
    /\ UNCHANGED <<floorVars, webVars>>

\* Lower and upper chain, each without its last point.
HullConcat ==
    /\ hull_pc = "concat"
    /\ polygon' = ButLast(lower) \o ButLast(upper)
    /\ hull_pc' = "return"
    /\ UNCHANGED <<vertices, hull_points, lower, upper, hull_i, runs>>
    /\ UNCHANGED <<floorVars, webVars>>

HullReturn ==
    /\ hull_pc = "return"
    /\ runs' = Append(runs, polygon)
    /\ hull_pc' = "idle"
    /\ UNCHANGED <<vertices, hull_points, lower, upper, hull_i, polygon>>
    /\ UNCHANGED <<floorVars, webVars>>

\* The extractor is run once more on the same argument.
HullAgain ==
    /\ hull_pc = "idle"
    /\ Len(runs) < MaxRuns
    /\ hull_pc' = "start"
    /\ UNCHANGED <<vertices, hull_points, lower, upper, hull_i, polygon, runs>>
    /\ UNCHANGED <<floorVars, webVars>>

NextHull ==
    \/ HullFilter
    \/ HullLower
    \/ HullUpper
    \/ HullConcat
    \/ HullReturn
    \/ HullAgain

SpecHull == InitHull /\ [][NextHull]_vars

-----------------------------------------------------------------------------
(* Vocabulary of the properties *)

Range(s) == { s[i] : i \in 1..Len(s) }
Logged(msg) == msg \in Range(log)

Kinds == {"doors", "windows", "objects"}
ErrorOf(k) ==
    CASE k = "doors" -> "error: doors"
      [] k = "windows" -> "error: windows"
      [] k = "objects" -> "error: objects"

\* The positions at which the extraction of a kind has returned (a call with
\* an argument that is no mapping ends at line 39, before any of them).
Extracted(k) ==
    /\ pc = "done" => roomplan_json.t = "map"
    /\ CASE k = "doors" -> pc \in {"windows", "objects", "bbox", "render", "done"}
         [] k = "windows" -> pc \in {"objects", "bbox", "render", "done"}
         [] k = "objects" -> pc \in {"bbox", "render", "done"}

\* The positions at which _compute_bounding_box has returned.
BoxComputed == pc = "render" \/ (pc = "done" /\ roomplan_json.t = "map")

Output(k) ==
    CASE k = "doors" -> doors
      [] k = "windows" -> windows
      [] k = "objects" -> objects

\* The value under the kind's key of the argument.
Input(k) ==
    CASE k = "doors" -> roomplan_json.doors
      [] k = "windows" -> roomplan_json.windows
      [] k = "objects" -> roomplan_json.objects

InputIsList(k) == roomplan_json.t = "map" /\ Input(k).t = "list"

ExtractList(k, list) ==
    CASE k = "doors" -> DoorsLoop(list, <<>>)
      [] k = "windows" -> WindowsLoop(list, <<>>)
      [] k = "objects" -> ObjectsLoop(list, <<>>)

Glyphs(k, box) ==
    LET fr == Frame(box) IN
    CASE k = "doors" -> { DoorGlyph(doors[i], fr) : i \in 1..Len(doors) }
      [] k = "windows" -> { WindowGlyph(windows[i], fr) : i \in 1..Len(windows) }
      [] k = "objects" -> { ObjectGlyph(objects[i], fr)[1] : i \in 1..Len(objects) }

\* Section data that the renderer accepts: a list (or no key) of mappings
\* whose center is a list (or missing) and whose label is a string (or missing).
SectionsWellFormed(json) ==
    /\ json.t = "map"
    /\ json.sections.t \in {"absent", "list"}
    /\ \A i \in 1..Len(json.sections.v) :
          LET sec == json.sections.v[i] IN
          /\ sec.t = "map"
          /\ sec.center.t \in {"absent", "list"}
          /\ sec.label.t \in {"absent", "str"}

\* Section data on which the section loop raises: sections is not a list, or
\* an entry is not a mapping, has a null center, or has a center of two or
\* more values with a null label.
SectionsMalformed(json) ==
    /\ json.t = "map"
    /\ \/ json.sections.t = "null"
       \/ \E i \in 1..Len(json.sections.v) :
             LET sec == json.sections.v[i] IN
             \/ sec.t # "map"
             \/ sec.center.t = "null"
             \/ sec.center.t = "list" /\ Len(sec.center.v) >= 2 /\ sec.label.t = "null"

\* A record on which the loop body of kind k raises: an entry that is not a
\* mapping (AttributeError), a null transform (TypeError), a transform of 12
\* or 13 entries (IndexError), null dimensions on an object (TypeError).
RecordRaises(k, r) ==
    \/ r.t # "map"
    \/ r.transform.t = "null"
    \/ r.transform.t = "list" /\ Len(r.transform.v) \in {12, 13}
    \/ /\ k = "objects"
       /\ r.transform.t = "list" /\ Len(r.transform.v) >= 14
       /\ r.dimensions.t = "null"

\* The argument is a mapping on which the extraction of kind k raises: the
\* value under its key is not a list, or the loop raises on one of its records.
KindRaises(k) ==
    /\ roomplan_json.t = "map"
    /\ \/ Input(k).t = "null"
       \/ \E i \in 1..Len(Input(k).v) : RecordRaises(k, Input(k).v[i])

\* A record with a missing transform or one of fewer than 12 entries.
IsShortRecord(r) ==
    r.t = "map" /\ r.transform.t \in {"absent", "list"} /\ Len(r.transform.v) < 12

\* A record of kind k that is read without an exception and not skipped.
IsSoundRecord(k, r) ==
    /\ r.t = "map"
    /\ r.transform.t = "list" /\ Len(r.transform.v) >= 14
    /\ \/ r.dimensions.t \in {"absent", "list"}
       \/ k # "objects" /\ r.dimensions.t = "null"

-----------------------------------------------------------------------------
(* C1: generate_2d_floorplan_svg never raises to its caller; it returns an   *)
(* SVG string for every argument, and whenever a step inside it raises into  *)
(* the outer handler (the argument is no mapping, or rendering throws on     *)
(* malformed section data) the returned string is exactly the constant of    *)
(* _generate_fallback_svg.                                                   *)
C1_NeverRaises ==
    /\ result.status # "raised"
    /\ pc = "done" =>
          /\ result.status = "returned"
          /\ result.svg.kind \in {"rendered", "fallback"}
          /\ (roomplan_json.t # "map" \/ SectionsMalformed(roomplan_json)
              \/ Logged("error: generate"))
                => result.svg = _generate_fallback_svg

\* A call whose rendering threw on malformed section data has returned the
\* placeholder.
C1_Witness ==
    /\ pc = "done"
    /\ SectionsMalformed(roomplan_json)
    /\ Len(doors) > 0
    /\ result = Returned(_generate_fallback_svg)

(* C2: an exception while extracting one kind (doors, windows or objects)    *)
(* does not prevent the extraction of the floor boundary and of the other    *)
(* kinds, and the call still returns a rendered SVG that draws them          *)
(* (the section data being well-formed).                                      *)
C2_KindsIsolated ==
    \A k \in Kinds :
       (pc = "done" /\ KindRaises(k) /\ SectionsWellFormed(roomplan_json))
       => /\ Logged(ErrorOf(k))
          /\ result.status = "returned"
          /\ result.svg.kind = "rendered"
          /\ LET fp == _extract_floor_boundary(roomplan_json).val IN
             floor_points = IF fp = <<>> THEN FallbackFloorPoints ELSE fp
          /\ \E part \in Range(result.svg.parts) :
                part.tag = "polygon" /\ Len(part.points) = Len(floor_points)
          /\ \A o \in Kinds \ {k} :
                /\ Output(o) = IF InputIsList(o) THEN ExtractList(o, Input(o).v).val
                               ELSE <<>>
                /\ Glyphs(o, bbox) \subseteq Range(result.svg.parts)

\* Door extraction raised, and the windows and objects are in the rendered SVG.
C2_Witness ==
    /\ pc = "done"
    /\ KindRaises("doors")
    /\ Logged("error: doors")
    /\ ~Logged("error: windows") /\ ~Logged("error: objects")
    /\ Len(windows) > 0 /\ Len(objects) > 0
    /\ result.svg.kind = "rendered"
    /\ Glyphs("windows", bbox) \subseteq Range(result.svg.parts)

(* C3: when the extraction of a kind hits an exception on any record of its  *)
(* list, the list returned for that kind is empty, wherever the offending    *)
(* record stands.                                                            *)
C3_EmptyOnException ==
    \A k \in Kinds : (Extracted(k) /\ KindRaises(k)) => Output(k) = <<>>

(* C4 as claimed: malformed section data is isolated to sections, and the    *)
(* call returns a rendered SVG with the floor boundary, doors, windows and   *)
(* objects.                                                                  *)
C4_SectionsIsolated ==
    (pc = "done" /\ SectionsMalformed(roomplan_json))
    => /\ result.svg.kind = "rendered"
       /\ \A k \in Kinds : Glyphs(k, bbox) \subseteq Range(result.svg.parts)

(* C4 as amended: malformed section data is not isolated.  The section loop  *)
(* of the renderer raises, the outer handler catches it, and the call        *)
(* returns the fallback placeholder: nothing of the floor boundary, doors,   *)
(* windows or objects is drawn, although they were extracted.                *)
C4_SectionsFallBack ==
    (pc = "done" /\ SectionsMalformed(roomplan_json))
    => /\ result = Returned(_generate_fallback_svg)
       /\ Logged("error: generate")
       /\ \A part \in Range(result.svg.parts) : part.tag # "polygon"
       /\ (Len(doors) > 0 => Glyphs("doors", bbox) \cap Range(result.svg.parts) = {})

\* A document with a section entry that is not a mapping and with extracted
\* doors, windows and objects has returned the placeholder.
C4_Witness ==
    /\ pc = "done"
    /\ roomplan_json.t = "map"
    /\ roomplan_json.sections.t = "list"
    /\ \E i \in 1..Len(roomplan_json.sections.v) : roomplan_json.sections.v[i].t # "map"
    /\ Len(doors) > 0 /\ Len(windows) > 0 /\ Len(objects) > 0
    /\ result.svg.kind = "fallback"

\* A record of kind k in which only the length of the transform can matter:
\* a mapping with well-typed dimensions and a transform that is a list or is
\* missing.
IsPlainRecord(k, r) ==
    /\ r.t = "map"
    /\ r.transform.t \in {"absent", "list"}
    /\ \/ r.dimensions.t \in {"absent", "list"}
       \/ k # "objects" /\ r.dimensions.t = "null"

(* C5: every door, window and object record whose transform has at least   *)
(* 12 entries (12 and 13 included) is extracted, at the position             *)
(* (transform[12], transform[13]).  Stated for lists of plain records, in    *)
(* which nothing but the transform can raise.                                *)
C5_PositionFromTransform ==
    \A k \in Kinds :
       (Extracted(k) /\ InputIsList(k)
        /\ \A i \in 1..Len(Input(k).v) : IsPlainRecord(k, Input(k).v[i]))
       => LET in == Input(k).v
              long == { i \in 1..Len(in) : Len(in[i].transform.v) >= 12 }
          IN  /\ Len(Output(k)) = Cardinality(long)
              /\ \A j \in 1..Len(Output(k)) :
                    LET t == in[KthIndex(long, j)].transform.v IN
                    /\ Len(t) >= 14
                    /\ Output(k)[j].x = t[13]
                    /\ Output(k)[j].y = t[14]

(* C6: a record whose transform is missing or has fewer than 12 entries is   *)
(* left out of its collection without an error and without a zero position,  *)
(* and the other records are extracted as if it were not in the list.        *)
C6_ShortTransformSkipped ==
    \A k \in Kinds :
       (Extracted(k) /\ InputIsList(k))
       => LET in == Input(k).v
              kept == SelectSeq(in, LAMBDA r : ~IsShortRecord(r))
              sound == { i \in 1..Len(in) : IsSoundRecord(k, in[i]) }
          IN  /\ Output(k) = ExtractList(k, kept).val
              /\ Logged(ErrorOf(k)) <=> ExtractList(k, kept).raised
              /\ (\A i \in 1..Len(in) : IsShortRecord(in[i]) \/ IsSoundRecord(k, in[i]))
                 => /\ ~Logged(ErrorOf(k))
                    /\ Len(Output(k)) = Cardinality(sound)
                    /\ \A j \in 1..Len(Output(k)) :
                          LET t == in[KthIndex(sound, j)].transform.v IN
                          Output(k)[j].x = t[13] /\ Output(k)[j].y = t[14]

\* A list with a short record before a sound one has been extracted: the
\* sound record is there, alone, and nothing was logged.
C6_Witness ==
    /\ pc = "done"
    /\ InputIsList("objects")
    /\ Len(roomplan_json.objects.v) = 2
    /\ IsShortRecord(roomplan_json.objects.v[1])
    /\ Len(roomplan_json.objects.v[1].transform.v) = 11
    /\ IsSoundRecord("objects", roomplan_json.objects.v[2])
    /\ Len(objects) = 1
    /\ ~Logged("error: objects")

\* The default widths of the claim, in tenths: 0.8, 1.0, 0.5.
DefaultWidthOf(k) ==
    CASE k = "doors" -> 8
      [] k = "windows" -> 10
      [] k = "objects" -> 5

(* C7: a record without a dimensions field gets the default size of its     *)
(* kind (door width 0.8, window width 1.0, object width 0.5 and depth 0.5);  *)
(* so does a record whose dimensions is an empty list, and an object with    *)
(* fewer than 3 dimensions gets depth 0.5.  Stated for lists of sound        *)
(* records, where output i comes from input i.                               *)
C7_DefaultDimensions ==
    \A k \in Kinds :
       (Extracted(k) /\ InputIsList(k)
        /\ \A i \in 1..Len(Input(k).v) : IsSoundRecord(k, Input(k).v[i]))
       => /\ Len(Output(k)) = Len(Input(k).v)
          /\ \A i \in 1..Len(Output(k)) :
                LET dims == Input(k).v[i].dimensions IN
                /\ (dims.t = "absent" \/ (dims.t = "list" /\ dims.v = <<>>))
                   => /\ Output(k)[i].width = DefaultWidthOf(k)
                      /\ k = "objects" => Output(k)[i].depth = 5
                /\ (k = "objects" /\ dims.t = "list" /\ Len(dims.v) < 3)
                   => Output(k)[i].depth = 5

\* The floor-point sequence that _extract_floor_boundary returned: the
\* caller replaces an empty one by the fallback square and logs a warning.
ExtractedFloor ==
    IF Logged("warning: no floor boundary") THEN <<>> ELSE floor_points

FloorExtracted == pc \notin {"idle", "floor"}

NonEmptyFirstFloor ==
    /\ roomplan_json.t = "map"
    /\ roomplan_json.floors.t = "list"
    /\ Len(roomplan_json.floors.v) > 0
    /\ roomplan_json.floors.v[1].t = "map"
    /\ roomplan_json.floors.v[1].polygonCorners.t = "list"
    /\ Len(roomplan_json.floors.v[1].polygonCorners.v) > 0

FirstFloorCorners == roomplan_json.floors.v[1].polygonCorners.v

SetMin(S) == CHOOSE m \in S : \A x \in S : m <= x
SetMax(S) == CHOOSE m \in S : \A x \in S : m >= x

FloorsEmptyOrMissing ==
    /\ roomplan_json.t = "map"
    /\ \/ roomplan_json.floors.t = "absent"
       \/ roomplan_json.floors.t = "list" /\ roomplan_json.floors.v = <<>>

(* C9: with a floors array that is empty or missing, the call uses the       *)
(* boundary (0,0),(5,0),(5,5),(0,5) (in tenths: side 50) for the bounding    *)
(* box and for the drawn polygon, and returns a rendered SVG, not the        *)
(* placeholder, without raising (the section data being well-formed).        *)
C9_FallbackBoundary ==
    LET square == << <<0, 0>>, <<50, 0>>, <<50, 50>>, <<0, 50>> >>
        xs == {0, 50} \cup { objects[i].x : i \in 1..Len(objects) }
        ys == {0, 50} \cup { objects[i].y : i \in 1..Len(objects) }
    IN
    /\ (FloorExtracted /\ FloorsEmptyOrMissing)
       => floor_points = square /\ Logged("warning: no floor boundary")
    /\ (pc \in {"render", "done"} /\ FloorsEmptyOrMissing)
       => /\ bbox = << FSub(Num(SetMin(xs)), Padding(Num(SetMin(xs)), Num(SetMax(xs)))),
                       FSub(Num(SetMin(ys)), Padding(Num(SetMin(ys)), Num(SetMax(ys)))),
                       FAdd(Num(SetMax(xs)), Padding(Num(SetMin(xs)), Num(SetMax(xs)))),
                       FAdd(Num(SetMax(ys)), Padding(Num(SetMin(ys)), Num(SetMax(ys)))) >>
          /\ objects = <<>> => bbox = <<Num(-5), Num(-5), Num(55), Num(55)>>
    /\ (pc = "done" /\ FloorsEmptyOrMissing)
       => /\ result.status = "returned"
          /\ SectionsWellFormed(roomplan_json)
             => /\ result.svg.kind = "rendered"
                /\ \E i \in 1..Len(result.svg.parts) :
                      /\ result.svg.parts[i].tag = "polygon"
                      /\ result.svg.parts[i].points =
                            LET fr == Frame(bbox) IN
                            [j \in 1..4 |-> transform_point(square[j][1], square[j][2], fr)]
                      /\ objects = <<>>
                         => \A j \in 1..4 :
                               LET p == result.svg.parts[i].points[j]
                                   lo == FDiv(FInt(200), FInt(3))
                                   hi == FDiv(FInt(2200), FInt(3))
                               IN  /\ p[1] = IF square[j][1] = 0 THEN lo ELSE hi
                                   /\ p[2] = IF square[j][2] = 0 THEN lo ELSE hi

\* A document with floors = [] and no objects has been rendered on the
\* fallback square.
C9_Witness ==
    /\ pc = "done"
    /\ roomplan_json.t = "map"
    /\ roomplan_json.floors = List(<<>>)
    /\ objects = <<>>
    /\ Len(doors) > 0
    /\ result.svg.kind = "rendered"
    /\ result.svg.width = 800 /\ result.svg.height = 800

(* C10: the box of _compute_bounding_box contains every floor point and      *)
(* every object position, and the unpadded bounds lie inside the padded      *)
(* ones.                                                                     *)
C10_BoxContainsAll ==
    BoxComputed
    => LET xs == { floor_points[i][1] : i \in 1..Len(floor_points) }
                 \cup { objects[i].x : i \in 1..Len(objects) }
           ys == { floor_points[i][2] : i \in 1..Len(floor_points) }
                 \cup { objects[i].y : i \in 1..Len(objects) }
       IN  /\ \A x \in xs : FLeq(bbox[1], Num(x)) /\ FLeq(Num(x), bbox[3])
           /\ \A y \in ys : FLeq(bbox[2], Num(y)) /\ FLeq(Num(y), bbox[4])
           /\ FLeq(bbox[1], Num(SetMin(xs))) /\ FLeq(Num(SetMax(xs)), bbox[3])
           /\ FLeq(bbox[2], Num(SetMin(ys))) /\ FLeq(Num(SetMax(ys)), bbox[4])

\* A box that had to grow for an object outside the floor polygon.
C10_Witness ==
    /\ pc = "done"
    /\ Len(objects) > 0
    /\ \E i \in 1..Len(objects) :
          \A j \in 1..Len(floor_points) :
             objects[i].x > floor_points[j][1] /\ objects[i].y < floor_points[j][2]
    /\ FLess(Num(SetMax({ floor_points[i][1] : i \in 1..Len(floor_points) })), bbox[3])

-----------------------------------------------------------------------------
(* Properties of calls that follow one another (SpecCalls) *)

\* Two documents that differ at most in their doors, windows and sections.
SameFloorsAndObjects(d1, d2) ==
    /\ d1.t = "map" /\ d2.t = "map"
    /\ d1.floors = d2.floors
    /\ d1.objects = d2.objects

Rendered(call) == call.result.svg.kind = "rendered"

(* C11 as claimed: two documents that differ only in their doors, windows    *)
(* or sections produce the same bounding box and the same SVG width and      *)
(* height.                                                                   *)
C11_SameCanvas ==
    \A i, j \in 1..Len(calls) :
       SameFloorsAndObjects(calls[i].roomplan_json, calls[j].roomplan_json)
       => /\ calls[i].bbox = calls[j].bbox
          /\ calls[i].result.svg.width = calls[j].result.svg.width
          /\ calls[i].result.svg.height = calls[j].result.svg.height

(* C11 as amended: two documents that differ only in their doors, windows    *)
(* or sections produce the same bounding box; when both calls return a       *)
(* rendered SVG, the two have the same width and height and the same scale   *)
(* (the scale is computed from the box alone, and it shows in the floor      *)
(* polygon, which has the same pixel points in both).  A document whose      *)
(* section data makes the renderer raise gets the 400 x 400 fallback SVG,    *)
(* whatever its floor and objects.                                           *)
C11_FrameFromFloorAndObjects ==
    \A i, j \in 1..Len(calls) :
       SameFloorsAndObjects(calls[i].roomplan_json, calls[j].roomplan_json)
       => /\ calls[i].bbox = calls[j].bbox
          /\ Rendered(calls[i]) /\ Rendered(calls[j])
             => /\ calls[i].result.svg.width = calls[j].result.svg.width
                /\ calls[i].result.svg.height = calls[j].result.svg.height
                /\ calls[i].result.svg.viewBox = calls[j].result.svg.viewBox
                /\ calls[i].result.svg.parts[2] = calls[j].result.svg.parts[2]

\* Two calls have returned a rendered SVG for documents that differ in their
\* doors (one of them has a door outside the floor polygon).
C11_Witness ==
    \E i, j \in 1..Len(calls) :
       /\ SameFloorsAndObjects(calls[i].roomplan_json, calls[j].roomplan_json)
       /\ calls[i].roomplan_json.doors # calls[j].roomplan_json.doors
       /\ Rendered(calls[i]) /\ Rendered(calls[j])
       /\ calls[i].result.svg.parts # calls[j].result.svg.parts

-----------------------------------------------------------------------------
(* Degenerate geometry and the canvas *)

\* The coordinates that _compute_bounding_box takes the extremes of.
RawXs == { floor_points[i][1] : i \in 1..Len(floor_points) }
         \cup { objects[i].x : i \in 1..Len(objects) }
RawYs == { floor_points[i][2] : i \in 1..Len(floor_points) }
         \cup { objects[i].y : i \in 1..Len(objects) }

(* C12: when the raw width or the raw height of the geometry is 0, the       *)
(* padding on that axis is 0 (the box keeps the one raw coordinate on both   *)
(* sides), the degenerate axis does not make the renderer raise (the call    *)
(* returns a rendered SVG unless the section data is malformed), and when    *)
(* the world width is 0 the canvas height is the fixed width 800.            *)
C12_DegenerateGeometry ==
    pc = "done" /\ roomplan_json.t = "map"
    => /\ SetMin(RawXs) = SetMax(RawXs)
          => /\ bbox[1] = Num(SetMin(RawXs)) /\ bbox[3] = Num(SetMin(RawXs))
             /\ SectionsWellFormed(roomplan_json)
                => /\ result = Returned(result.svg)
                   /\ result.svg.kind = "rendered"
                   /\ result.svg.height = 800
                   /\ result.svg.width = 800
       /\ SetMin(RawYs) = SetMax(RawYs)
          => /\ bbox[2] = Num(SetMin(RawYs)) /\ bbox[4] = Num(SetMin(RawYs))
             /\ SectionsWellFormed(roomplan_json)
                => /\ result = Returned(result.svg)
                   /\ result.svg.kind = "rendered"

\* A call has returned for a floor whose corners lie on one vertical line.
C12_Witness ==
    /\ pc = "done" /\ roomplan_json.t = "map"
    /\ Cardinality(RawXs) = 1 /\ Cardinality(RawYs) > 1
    /\ result.svg.kind = "rendered"
    /\ Len(result.svg.parts[2].points) = 2

\* width and height of lines 213-214
WorldWidth == FSub(bbox[3], bbox[1])
WorldHeight == FSub(bbox[4], bbox[2])

\* The integer n is a nearest integer of the float v.
IsNearestInteger(n, v) ==
    /\ FLeq(FSub(FInt(n), v), FHalf(FInt(1)))
    /\ FLeq(FSub(v, FInt(n)), FHalf(FInt(1)))

(* C13 as claimed: for every bounding box of positive width the canvas width *)
(* is 800, the canvas height is 800 * (world-height / world-width) rounded   *)
(* to the nearest integer, and the floor polygon is drawn with the scales    *)
(* scale_x = canvas_width / world_width and scale_y = canvas_height /        *)
(* world_height.                                                             *)
C13_HeightRoundedToNearest ==
    pc = "done" /\ result.svg.kind = "rendered" /\ FLess(FZero, WorldWidth)
    => /\ result.svg.width = 800
       /\ IsNearestInteger(result.svg.height,
                           FMul(FInt(800), FDiv(WorldHeight, WorldWidth)))
       /\ FLess(FZero, WorldHeight)
          => result.svg.parts[2].points[1]
             = << FMul(FSub(Num(floor_points[1][1]), bbox[1]),
                       FDiv(FInt(result.svg.width), WorldWidth)),
                  FMul(FSub(Num(floor_points[1][2]), bbox[2]),
                       FDiv(FInt(result.svg.height), WorldHeight)) >>

\* The document of scenario 1: one floor of 4 x 3 and nothing else.
RectDoc == Document(RectFloors, Absent, Absent, Absent, Absent)

(* C14 as claimed: for the document whose only content is the floor          *)
(* (0,0),(4,0),(4,3),(0,3) the call returns an SVG whose boundary polygon    *)
(* has 4 points and whose width, height and viewBox are 800 by 600; the      *)
(* viewBox of every rendered SVG is "0 0 W H" with W and H its width and     *)
(* height.                                                                   *)
C14_ScenarioOne ==
    pc = "done"
    => /\ roomplan_json = RectDoc
          => /\ result = Returned(result.svg)
             /\ result.svg.kind = "rendered"
             /\ Len(result.svg.parts[2].points) = 4
             /\ result.svg.width = 800 /\ result.svg.height = 600
             /\ result.svg.viewBox = <<0, 0, 800, 600>>
       /\ result.svg.kind = "rendered"
          => result.svg.viewBox = <<0, 0, result.svg.width, result.svg.height>>

-----------------------------------------------------------------------------
(* The layers of a rendered SVG *)

\* The layer a part of a rendered SVG belongs to, read off its tag and paint:
\* 1 background, 2 floor polygon, 3 section marker, 4 door, 5 window,
\* 6 furniture.
Layer(part) ==
    IF part.tag = "polygon" THEN 2
    ELSE IF part.tag = "circle" \/ (part.tag = "text" /\ part.h = FInt(14)) THEN 3
    ELSE IF part.tag = "rect" /\ part.fill \in {"#35B0FE", "#F17F38"} THEN 4
    ELSE IF part.tag = "rect" /\ part.fill = "#07C0C3" THEN 5
    ELSE IF part.tag = "rect" /\ part.fill = "#FCF7F4" THEN 1
    ELSE 6

(* C15: the parts of a rendered SVG come in the order background rect,       *)
(* floor polygon, section markers, door glyphs, window glyphs, furniture     *)
(* glyphs: no part of a later layer precedes a part of an earlier one, and   *)
(* within a layer the parts follow the order of the sections, doors,         *)
(* windows and objects they are drawn for.                                   *)
C15_DrawOrder ==
    pc = "done" /\ result.svg.kind = "rendered"
    => LET parts == result.svg.parts
           fr == Frame(bbox)
           IsCircle(p) == p.tag = "circle"
           IsDoor(p) == Layer(p) = 4
           IsWindow(p) == Layer(p) = 5
           IsObjectRect(p) == Layer(p) = 6 /\ p.tag = "rect"
           HasCentre(sec) == sec.center.t = "list" /\ Len(sec.center.v) >= 2
           drawn == IF sections.t = "list" THEN SelectSeq(sections.v, HasCentre)
                    ELSE <<>>
           circles == SelectSeq(parts, IsCircle)
       IN  /\ Layer(parts[1]) = 1
           /\ Layer(parts[2]) = 2
           /\ \A i \in 3..Len(parts) : Layer(parts[i]) > 2
           /\ \A i, j \in 1..Len(parts) : i < j => Layer(parts[i]) <= Layer(parts[j])
           /\ Len(circles) = Len(drawn)
           /\ \A i \in 1..Len(drawn) :
                 << circles[i].x, circles[i].y >>
                 = transform_point(drawn[i].center.v[1], drawn[i].center.v[2], fr)
           /\ \A i \in 1..Len(parts) :
                 parts[i].tag = "circle"
                 => i < Len(parts) /\ parts[i + 1].tag = "text"
                    /\ Layer(parts[i + 1]) = 3 /\ parts[i + 1].x = parts[i].x
           /\ SelectSeq(parts, IsDoor) = [i \in 1..Len(doors) |-> DoorGlyph(doors[i], fr)]
           /\ SelectSeq(parts, IsWindow)
              = [i \in 1..Len(windows) |-> WindowGlyph(windows[i], fr)]
           /\ SelectSeq(parts, IsObjectRect)
              = [i \in 1..Len(objects) |-> ObjectGlyph(objects[i], fr)[1]]

\* A rendered SVG with two section markers, two doors at different places,
\* windows and furniture.
C15_Witness ==
    /\ pc = "done" /\ result.svg.kind = "rendered"
    /\ Len(doors) = 2 /\ doors[1] # doors[2]
    /\ Len(windows) > 0 /\ Len(objects) > 0
    /\ Cardinality({ i \in 1..Len(result.svg.parts) :
                        result.svg.parts[i].tag = "circle" }) = 2

\* The scales and the pixel position of a world position, as the claim gives
\* them.
RenderScaleX ==
    IF FLess(FZero, WorldWidth) THEN FDiv(FInt(result.svg.width), WorldWidth)
    ELSE FInt(1)
RenderScaleY ==
    IF FLess(FZero, WorldHeight) THEN FDiv(FInt(result.svg.height), WorldHeight)
    ELSE FInt(1)
PixelX(x) == FMul(FSub(Num(x), bbox[1]), RenderScaleX)
PixelY(y) == FMul(FSub(Num(y), bbox[2]), RenderScaleY)

\* category.door.isOpen of a door record of the document is true.
RecordIsOpen(rec) ==
    rec.category.t = "map" /\ rec.category.key = DOOR_KEY /\ rec.category.isOpen = "true"

DoorParts == LET IsDoor(p) == Layer(p) = 4 IN SelectSeq(result.svg.parts, IsDoor)
WindowParts == LET IsWindow(p) == Layer(p) = 5 IN SelectSeq(result.svg.parts, IsWindow)
ObjectParts ==
    LET IsObjectRect(p) == Layer(p) = 6 /\ p.tag = "rect"
    IN  SelectSeq(result.svg.parts, IsObjectRect)

(* C16: every door glyph has the open color when category.door.isOpen of its *)
(* record is true and the closed color otherwise (also when the field is     *)
(* absent); its rect is centered on the pixel position ((x - min_x) *        *)
(* scale_x, (y - min_y) * scale_y) of (transform[12], transform[13]) and is  *)
(* door width times scale_x wide; the floor polygon, the windows and the     *)
(* objects of the same render are placed by the same transform.              *)
C16_DoorGlyphs ==
    pc = "done" /\ result.svg.kind = "rendered"
    => /\ Len(DoorParts) = Len(doors)
       /\ InputIsList("doors") /\ Len(doors) = Len(roomplan_json.doors.v)
          => \A i \in 1..Len(doors) :
                LET rec == roomplan_json.doors.v[i]
                    g == DoorParts[i]
                IN  /\ g.fill = IF RecordIsOpen(rec) THEN "#35B0FE" ELSE "#F17F38"
                    /\ g.w = FMul(Num(doors[i].width), RenderScaleX)
                    /\ g.x = FSub(PixelX(rec.transform.v[13]), FHalf(g.w))
                    /\ g.y = FSub(PixelY(rec.transform.v[14]), FInt(5))
                    /\ g.h = FInt(10)
       /\ \A i \in 1..Len(floor_points) :
             result.svg.parts[2].points[i]
             = << PixelX(floor_points[i][1]), PixelY(floor_points[i][2]) >>
       /\ \A i \in 1..Len(windows) :
             /\ WindowParts[i].x = FSub(PixelX(windows[i].x), FHalf(WindowParts[i].w))
             /\ WindowParts[i].y = FSub(PixelY(windows[i].y), FInt(3))
       /\ \A i \in 1..Len(objects) :
             /\ ObjectParts[i].x = FSub(PixelX(objects[i].x), FHalf(ObjectParts[i].w))
             /\ ObjectParts[i].y = FSub(PixelY(objects[i].y), FHalf(ObjectParts[i].h))

\* An open and a closed door of one document, both drawn, at different places.
C16_Witness ==
    /\ pc = "done" /\ result.svg.kind = "rendered"
    /\ InputIsList("doors") /\ Len(doors) = 2 /\ Len(roomplan_json.doors.v) = 2
    /\ RecordIsOpen(roomplan_json.doors.v[1])
    /\ ~RecordIsOpen(roomplan_json.doors.v[2])
    /\ DoorParts[1].fill # DoorParts[2].fill
    /\ DoorParts[1].y # DoorParts[2].y

-----------------------------------------------------------------------------
(* What a stage leaves alone *)

\* The positions after the stage that produces the local has run.
After(stage) ==
    CASE stage = "floor" -> {"sections", "doors", "windows", "objects", "bbox", "render", "done"}
      [] stage = "sections" -> {"doors", "windows", "objects", "bbox", "render", "done"}
      [] stage = "doors" -> {"windows", "objects", "bbox", "render", "done"}
      [] stage = "windows" -> {"objects", "bbox", "render", "done"}
      [] stage = "objects" -> {"bbox", "render", "done"}
      [] stage = "bbox" -> {"render", "done"}

(* C18: no stage changes the output of an earlier stage or the document:     *)
(* during a call roomplan_json stays as passed, and once a stage has         *)
(* returned, its floor_points, sections, doors, windows, objects or bbox     *)
(* are the same after every later step; in particular the bounding-box and   *)
(* render steps leave floor_points, doors, windows and objects as the        *)
(* extraction returned them.                                                 *)
C18_StagesOnlyRead ==
    [][ /\ pc # "idle" => roomplan_json' = roomplan_json
        /\ pc \in After("floor") => floor_points' = floor_points
        /\ pc \in After("sections") => sections' = sections
        /\ pc \in After("doors") => doors' = doors
        /\ pc \in After("windows") => windows' = windows
        /\ pc \in After("objects") => objects' = objects
        /\ pc \in After("bbox") => bbox' = bbox
        /\ pc \in {"bbox", "render"}
           => UNCHANGED <<floor_points, doors, windows, objects>> ]_vars

\* A call has returned whose box grew for an object, with the floor points
\* still the corners of the floor.
C18_Witness ==
    /\ pc = "done" /\ result.svg.kind = "rendered"
    /\ Len(objects) > 0 /\ Len(doors) > 0 /\ Len(windows) > 0
    /\ floor_points = [i \in 1..Len(RectCorners) |-> <<RectCorners[i][1], RectCorners[i][2]>>]
    /\ Len(result.svg.parts[2].points) = Len(floor_points)

(* C17: the generator is deterministic: two calls with identical documents   *)
(* return identical SVGs, rendered or fallback, whatever calls were made     *)
(* in between and whatever they left behind.                                 *)
C17_Deterministic ==
    \A i, j \in 1..Len(calls) :
       calls[i].roomplan_json = calls[j].roomplan_json
       => calls[i].result = calls[j].result

\* The same document was passed to the first and the third call and was
\* rendered, and another document, which got the fallback, in between.
C17_Witness ==
    /\ Len(calls) = 3
    /\ calls[1].roomplan_json = calls[3].roomplan_json
    /\ calls[2].roomplan_json # calls[1].roomplan_json
    /\ Rendered(calls[1]) /\ Rendered(calls[3])
    /\ Len(calls[1].result.svg.parts) > 4
    /\ calls[2].result.svg.kind = "fallback"

-----------------------------------------------------------------------------
(* Properties of the point-cloud extractor (SpecHull) *)

HullReturned == hull_pc \in {"return", "idle"} /\ vertices # <<>>

\* The k-th edge of a closed polygon: from its k-th vertex to the next one.
EdgeFrom(poly, k) == poly[k]
EdgeTo(poly, k) == poly[(k % Len(poly)) + 1]

\* p lies on the closed segment from a to b.
OnSegment(a, b, p) ==
    /\ cross(a, b, p) = 0
    /\ (a[1] <= p[1] /\ p[1] <= b[1]) \/ (b[1] <= p[1] /\ p[1] <= a[1])
    /\ (a[2] <= p[2] /\ p[2] <= b[2]) \/ (b[2] <= p[2] /\ p[2] <= a[2])

\* p lies on or inside a polygon given counterclockwise (a single point and a
\* segment count as polygons of one and two vertices).
OnOrInside(poly, p) ==
    CASE Len(poly) = 0 -> FALSE
      [] Len(poly) = 1 -> p = poly[1]
      [] Len(poly) = 2 -> OnSegment(poly[1], poly[2], p)
      [] OTHER -> \A k \in 1..Len(poly) :
                     cross(EdgeFrom(poly, k), EdgeTo(poly, k), p) >= 0

Sign(n) == IF n > 0 THEN 1 ELSE IF n < 0 THEN -1 ELSE 0

\* The closed segments a-b and c-d have a point in common.
SegmentsMeet(a, b, c, d) ==
    \/ /\ Sign(cross(a, b, c)) * Sign(cross(a, b, d)) < 0
       /\ Sign(cross(c, d, a)) * Sign(cross(c, d, b)) < 0
    \/ OnSegment(a, b, c) \/ OnSegment(a, b, d)
    \/ OnSegment(c, d, a) \/ OnSegment(c, d, b)

\* No vertex twice, edges that follow one another share their common vertex
\* only, and other edges share no point.
IsSimple(poly) ==
    /\ \A k, m \in 1..Len(poly) : k # m => poly[k] # poly[m]
    /\ Len(poly) >= 3
       => \A k, m \in 1..Len(poly) :
             k # m
             => IF EdgeTo(poly, k) = EdgeFrom(poly, m)
                THEN /\ ~OnSegment(EdgeFrom(poly, k), EdgeTo(poly, k), EdgeTo(poly, m))
                     /\ ~OnSegment(EdgeFrom(poly, m), EdgeTo(poly, m), EdgeFrom(poly, k))
                ELSE IF EdgeTo(poly, m) = EdgeFrom(poly, k) THEN TRUE
                ELSE ~SegmentsMeet(EdgeFrom(poly, k), EdgeTo(poly, k),
                                   EdgeFrom(poly, m), EdgeTo(poly, m))

(* C19 as claimed: every input point of the extractor lies on or inside the  *)
(* polygon it returns, the polygon is simple, and every run on the same      *)
(* input returned the same polygon.                                          *)
C19_HullContainsInput ==
    HullReturned
    => /\ \A p \in Project(vertices) : OnOrInside(polygon, p)
       /\ IsSimple(polygon)
       /\ \A k \in 1..Len(runs) : runs[k] = runs[1]

(* C19 as amended: every input point that is a floor candidate (z at most    *)
(* 0.05 above the 25th percentile of z, or any point when fewer than four    *)
(* vertices pass that filter) lies on or inside the returned polygon, an     *)
(* input of fewer than four vertices is contained whole, the polygon is      *)
(* simple, and every run on the same input returned the same polygon.        *)
C19_HullContainsFloor ==
    HullReturned
    => /\ \A p \in Project(FloorCandidates(vertices)) : OnOrInside(polygon, p)
       /\ Len(vertices) < MIN_FLOOR_POINTS
          => \A p \in Project(vertices) : OnOrInside(polygon, p)
       /\ IsSimple(polygon)
       /\ \A k \in 1..Len(runs) : runs[k] = polygon

\* The extractor has run twice on an argument with collinear floor vertices
\* and a vertex above the floor that the filter removed, and returned a
\* polygon with an interior.
C19_Witness ==
    /\ hull_pc = "idle" /\ Len(runs) = 2
    /\ Len(vertices) > Len(FloorCandidates(vertices))
    /\ Len(hull_points) > Len(polygon)
    /\ Len(polygon) >= 3

-----------------------------------------------------------------------------
(* views.generate_recommendations: the request handler around the generator *)

\* Most ScanArtifact rows in the table when a request arrives.
MaxArtifacts == 2

\* models.py lines 52-59: the members of ScanArtifact.Kind, name to value.
ScanArtifact_Kind ==
    [RAW_MESH |-> "raw_mesh", PROCESSED_MESH |-> "processed_mesh",
     FLOORPLAN |-> "floorplan", CAMERA_PATH |-> "camera_path",
     SCREEN_CAPTURE |-> "screen_capture", METADATA |-> "metadata",
     ROOMPLAN_JSON |-> "roomplan_json"]

\* len(s.encode('utf-8')) of a string given as its code points.
Utf8Len(s) ==
    LET Bytes(c) == IF c < 128 THEN 1 ELSE IF c < 2048 THEN 2
                    ELSE IF c < 65536 THEN 3 ELSE 4
        Sum[i \in 0..Len(s)] == IF i = 0 THEN 0 ELSE Sum[i - 1] + Bytes(s[i])
    IN  Sum[Len(s)]

\* What generate_2d_floorplan_svg returns to the view: strings of code
\* points, in ASCII and beyond ("<a>", "<e-acute>", a CJK label).
SvgStrings == { <<60, 97, 62>>, <<60, 233, 62>>, <<60, 24195, 62>> }

\* A ScanArtifact row.
ArtifactRow(session, kind, status, token, ctype, bytes, file) ==
    [session |-> session, kind |-> kind, status |-> status, upload_token |-> token,
     content_type |-> ctype, bytes |-> bytes, file |-> file]

\* The rows a table holds when a request arrives: RoomPlan uploads of the
\* session (finished or not), another artifact of it, a RoomPlan upload of
\* another session.
StoredRows ==
    { ArtifactRow("s1", "roomplan_json", "complete", "t1", "application/json", 9, "t1.json"),
      ArtifactRow("s1", "roomplan_json", "received", "t2", "", 0, ""),
      ArtifactRow("s1", "raw_mesh", "complete", "t3", "model/obj", 7, "t3.obj"),
      ArtifactRow("s2", "roomplan_json", "complete", "t4", "application/json", 9, "t4.json") }

RECURSIVE TablesOf(_)
TablesOf(n) ==
    IF n = 0 THEN { <<>> }
    ELSE TablesOf(n - 1)
         \cup { Append(t, r) : t \in { u \in TablesOf(n - 1) : Len(u) = n - 1 },
                               r \in StoredRows }

\* Tables without a repeated row (upload_token is unique).
Tables ==
    { t \in TablesOf(MaxArtifacts) : \A i, j \in 1..Len(t) : t[i] = t[j] => i = j }

\* The requests: a session id that exists or not, and a body whose user_id is
\* missing, null, empty or given.
Requests ==
    { [session_id |-> s, user_id |-> u]
      : s \in {"s1", "s0"}, u \in { Absent, Null, Str(<<>>), Str(<<"u">>) } }

\* A response: its status code and the entries of its body ("" and <<>> for
\* an entry the body does not have).
Response(status, error, recommendations, session_id, url) ==
    [status |-> status, error |-> error, recommendations |-> recommendations,
     session_id |-> session_id, floorplan_svg_url |-> url]

ErrorResponse(status, error) == Response(status, error, "", "", <<>>)

\* The rows of the query of lines 153-156.
roomplan_artifacts ==
    SelectSeq(artifact_rows,
              LAMBDA a : /\ a.session = request.session_id
                         /\ a.kind = ScanArtifact_Kind.ROOMPLAN_JSON
                         /\ a.status = "complete")

\* A request arrives at a server that holds some sessions, rows and files.
InitView ==
    /\ IdleFloorplan
    /\ IdleUpload
    /\ IdleJobs
    /\ IdleRequest
    /\ IdleEnrich
    /\ view_pc = "session"
    /\ request \in Requests
    /\ session_rows = {"s1", "s2"}
    /\ artifact_rows \in Tables
    /\ media \in {"missing", "corrupt", "unreadable", "json"}
    /\ floorplan_svg_url = <<>>
    /\ response = <<>>
    /\ view_log = <<>>
    /\ called = <<>>
    /\ rows_before = artifact_rows

\* What a step that touches no row, file or log leaves alone.
ViewQuiet ==
    /\ UNCHANGED <<request, session_rows, artifact_rows, media, floorplan_svg_url,
                   view_log, called, rows_before>>
    /\ UNCHANGED notView

\* Variant: the body is validated before the session is looked up.
ViewSession_userFirst ==
    /\ view_pc = "session"
    /\ IF ~Truthy(request.user_id)
       THEN /\ response' = ErrorResponse(400, "user_id is required")
            /\ view_pc' = "done"
       ELSE IF request.session_id \in session_rows
       THEN /\ view_pc' = "user_id"
            /\ UNCHANGED response
       ELSE /\ response' = ErrorResponse(404, "Not found.")
            /\ view_pc' = "done"
    /\ ViewQuiet

\* line 139: get_object_or_404
ViewSession ==
    /\ view_pc = "session"
    /\ IF request.session_id \in session_rows
       THEN /\ view_pc' = "user_id"
            /\ UNCHANGED response
       ELSE /\ response' = ErrorResponse(404, "Not found.")
            /\ view_pc' = "done"
    /\ ViewQuiet

\* lines 142-147: user_id is required
ViewUserId ==
    /\ view_pc = "user_id"
    /\ IF Truthy(request.user_id)
       THEN /\ view_pc' = "artifact"
            /\ UNCHANGED response
       ELSE /\ response' = ErrorResponse(400, "user_id is required")
            /\ view_pc' = "done"
    /\ ViewQuiet

\* lines 153-162: the RoomPlan JSON artifact of the session
ViewArtifact ==
    /\ view_pc = "artifact"
    /\ IF roomplan_artifacts # <<>>
       THEN /\ view_pc' = "load"
            /\ UNCHANGED response
       ELSE /\ response' = ErrorResponse(404, "No RoomPlan JSON artifact found for this session")
            /\ view_pc' = "done"
    /\ ViewQuiet

\* lines 165-175: open and parse the file.  A missing file and a file that
\* is no JSON are answered by the handler; any other error of open (a
\* directory, a permission) leaves the view and the framework answers 500.
ViewLoad ==
    /\ view_pc = "load"
    /\ IF media = "json"
       THEN /\ view_pc' = "svg"
            /\ UNCHANGED response
       ELSE /\ response' = ErrorResponse(500, IF media = "unreadable" THEN "Server Error"
                                               ELSE "Failed to load RoomPlan JSON")
            /\ view_pc' = "done"
    /\ ViewQuiet

\* lines 185-198: the row of the SVG as create leaves it, and as the save of
\* the file and the save of its size leave it.
SvgRowCreated(token) ==
    ArtifactRow(request.session_id, ScanArtifact_Kind.FLOORPLAN_SVG, "complete", token,
                "image/svg+xml", 0, "")

SvgRowSaved(token, svg) ==
    ArtifactRow(request.session_id, ScanArtifact_Kind.FLOORPLAN_SVG, "complete", token,
                "image/svg+xml", Utf8Len(svg), <<token, ".svg">>)

\* lines 177-206: the generator returns a string; the member FLOORPLAN_SVG
\* of ScanArtifact.Kind is looked up (AttributeError when the enumeration
\* has no such member); the row is created; the file is saved, or the
\* storage fails; the size is saved.  Whatever is raised on the way is logged
\* and the request goes on.
ViewSvg ==
    /\ view_pc = "svg"
    /\ \E svg \in SvgStrings, token \in { <<"svg", Len(artifact_rows) + 1>> },
          stored \in BOOLEAN :
          /\ called' = Append(called, <<"generate_2d_floorplan_svg", "returned", svg>>)
          /\ IF "FLOORPLAN_SVG" \notin DOMAIN ScanArtifact_Kind
             THEN /\ stored
                  /\ view_log' = Append(view_log, "Failed to generate floorplan SVG")
                  /\ UNCHANGED <<artifact_rows, floorplan_svg_url>>
             ELSE IF stored
             THEN /\ artifact_rows' = Append(artifact_rows, SvgRowSaved(token, svg))
                  /\ floorplan_svg_url' = <<"MEDIA_URL", <<token, ".svg">> >>
                  /\ UNCHANGED view_log
             ELSE /\ artifact_rows' = Append(artifact_rows, SvgRowCreated(token))
                  /\ view_log' = Append(view_log, "Failed to generate floorplan SVG")
                  /\ UNCHANGED floorplan_svg_url
    /\ view_pc' = "engine"
    /\ UNCHANGED <<request, session_rows, media, response, rows_before>>
    /\ UNCHANGED notView

\* The answer of lines 222-227 to what the engine returned.
Success(recommendations) ==
    Response(200, "", recommendations, request.session_id, floorplan_svg_url)

\* Variant: the error of the floorplan step is reported to the client.
EngineReturned_strict ==
    IF floorplan_svg_url = <<>>
    THEN ErrorResponse(500, "Failed to generate floorplan SVG")
    ELSE Success("recommendations")

\* lines 210-215, 222-227: the engine returned its dictionary.
EngineReturned == Success("recommendations")

\* lines 216-220: the engine raised.
EngineRaised == ErrorResponse(500, "Recommendation generation failed")

\* lines 208-227: call the recommendation engine and answer.
ViewEngine ==
    /\ view_pc = "engine"
    /\ \E raised \in BOOLEAN :
          /\ called' = Append(called, <<"get_floor_plan_recommendations",
                                        IF raised THEN "raised" ELSE "returned", <<>> >>)
          /\ response' = IF raised THEN EngineRaised ELSE EngineReturned
    /\ view_pc' = "done"
    /\ UNCHANGED <<request, session_rows, artifact_rows, media, floorplan_svg_url,
                   view_log, rows_before>>
    /\ UNCHANGED notView

NextView ==
    \/ ViewSession
    \/ ViewUserId
    \/ ViewArtifact
    \/ ViewLoad
    \/ ViewSvg
    \/ ViewEngine

\* One generate_recommendations request, from its arrival to its response.
SpecView == InitView /\ [][NextView]_vars

-----------------------------------------------------------------------------
(* C20: the rejections of generate_recommendations *)

SessionKnown == request.session_id \in session_rows

\* No collaborator has been called and the table is as the request found it.
NoWorkDone == called = <<>> /\ artifact_rows = rows_before

(* C20: a request for an unknown session is answered 404; a request for an  *)
(* existing session whose user_id is missing or empty is answered 400,      *)
(* whatever its artifacts are; a request with a user_id for a session       *)
(* without a COMPLETE roomplan_json artifact is answered 404.  In the three *)
(* cases, at every moment of the request, neither the floorplan generator   *)
(* nor the recommendation engine has been called and no artifact row has    *)
(* been created or changed.                                                 *)
C20_RejectedBeforeWork ==
    view_pc # "idle" =>
        /\ ~SessionKnown =>
              /\ NoWorkDone
              /\ view_pc = "done" => response.status = 404
        /\ SessionKnown /\ ~Truthy(request.user_id) =>
              /\ NoWorkDone
              /\ view_pc = "done" => response.status = 400
        /\ SessionKnown /\ Truthy(request.user_id) /\ roomplan_artifacts = <<>> =>
              /\ NoWorkDone
              /\ view_pc = "done" => response.status = 404

\* A request without user_id for a session without RoomPlan artifact has
\* been answered 400.
C20_Witness ==
    /\ view_pc = "done"
    /\ SessionKnown
    /\ ~Truthy(request.user_id)
    /\ roomplan_artifacts = <<>>
    /\ response.status = 400

-----------------------------------------------------------------------------
(* C21: the floorplan step never fails the request *)

\* How the call of the recommendation engine ended, once it has been made.
EngineCall == called[Len(called)]

Answered == view_pc = "done" /\ called # <<>>

(* C21: once the RoomPlan JSON is loaded the request reaches the engine,    *)
(* and its answer depends on the engine only, whether or not the floorplan  *)
(* step logged a failure: 200 with the engine's result and the id of the    *)
(* session when the engine returned, 500 with the error 'Recommendation     *)
(* generation failed' when it raised.                                       *)
C21_StatusFromEngineOnly ==
    Answered =>
        /\ EngineCall[1] = "get_floor_plan_recommendations"
        /\ EngineCall[2] = "returned" =>
              /\ response.status = 200
              /\ response.recommendations = "recommendations"
              /\ response.session_id = request.session_id
        /\ EngineCall[2] = "raised" =>
              /\ response.status = 500
              /\ response.error = "Recommendation generation failed"

\* The floorplan step has failed and the request has been answered 200.
C21_Witness ==
    /\ Answered
    /\ view_log # <<>>
    /\ EngineCall[2] = "returned"
    /\ response.status = 200

-----------------------------------------------------------------------------
(* C25: the artifact of the rendered floorplan *)

\* The floorplan generator has returned and the floorplan step is over.
SvgReturned ==
    /\ view_pc \in {"engine", "done"}
    /\ called # <<>>
    /\ called[1][1] = "generate_2d_floorplan_svg"

\* The rows stored since the request arrived.
NewRows == SubSeq(artifact_rows, Len(rows_before) + 1, Len(artifact_rows))

(* C25: when the generator has returned an SVG string, exactly one new      *)
(* artifact is stored for the session, with content type image/svg+xml,     *)
(* status COMPLETE and bytes equal to the UTF-8 length of the string, and a *)
(* 200 response carries a floorplan_svg_url that points at its file.        *)
C25_SvgArtifactStored ==
    SvgReturned =>
        /\ Len(NewRows) = 1
        /\ NewRows[1].session = request.session_id
        /\ NewRows[1].content_type = "image/svg+xml"
        /\ NewRows[1].status = "complete"
        /\ NewRows[1].bytes = Utf8Len(called[1][3])
        /\ view_pc = "done" /\ response.status = 200 =>
              response.floorplan_svg_url = <<"MEDIA_URL", NewRows[1].file>>

-----------------------------------------------------------------------------
(* C27: the records of a kind are extracted independently of one another *)

(* C27: the records extracted for a kind do not depend on the other records  *)
(* of the list: every well-formed record (a transform of at least 14         *)
(* entries, well-typed dimensions and category) is in the output, and the    *)
(* output is what the well-formed records alone would give, even when a      *)
(* malformed record precedes them.                                           *)
C27_RecordsIndependent ==
    \A k \in Kinds :
       (Extracted(k) /\ InputIsList(k))
       => /\ Output(k)
               = ExtractList(k, SelectSeq(Input(k).v,
                                          LAMBDA r : IsSoundRecord(k, r))).val
          /\ \A i \in 1..Len(Input(k).v) :
                IsSoundRecord(k, Input(k).v[i])
                => \E j \in 1..Len(Output(k)) :
                      /\ Output(k)[j].x = Input(k).v[i].transform.v[13]
                      /\ Output(k)[j].y = Input(k).v[i].transform.v[14]

-----------------------------------------------------------------------------
(* C29: the drawn elements and the canvas *)

\* The pixel position of the world point (x, y) lies on the canvas.
OnCanvas(x, y) ==
    /\ FLeq(FZero, PixelX(x)) /\ FLeq(PixelX(x), FInt(result.svg.width))
    /\ FLeq(FZero, PixelY(y)) /\ FLeq(PixelY(y), FInt(result.svg.height))

\* The markers of the section labels of the rendered SVG.
SectionMarkers ==
    LET IsMarker(p) == p.tag = "circle" IN SelectSeq(result.svg.parts, IsMarker)

(* C29: in every rendered SVG whose bounding box has a positive width and    *)
(* height, the center of every drawn element is on the canvas: 0 <= svg_x <= *)
(* svg_width and 0 <= svg_y <= svg_height for each floor vertex, object,     *)
(* door, window and section label.                                           *)
C29_CentersOnCanvas ==
    (/\ pc = "done" /\ result.svg.kind = "rendered"
     /\ FLess(FZero, WorldWidth) /\ FLess(FZero, WorldHeight))
    => /\ \A i \in 1..Len(floor_points) : OnCanvas(floor_points[i][1], floor_points[i][2])
       /\ \A i \in 1..Len(objects) : OnCanvas(objects[i].x, objects[i].y)
       /\ \A i \in 1..Len(doors) : OnCanvas(doors[i].x, doors[i].y)
       /\ \A i \in 1..Len(windows) : OnCanvas(windows[i].x, windows[i].y)
       /\ \A i \in 1..Len(SectionMarkers) :
             /\ FLeq(FZero, SectionMarkers[i].x)
             /\ FLeq(SectionMarkers[i].x, FInt(result.svg.width))
             /\ FLeq(FZero, SectionMarkers[i].y)
             /\ FLeq(SectionMarkers[i].y, FInt(result.svg.height))

\* The part of the claim about the floor vertices and the objects, which the
\* bounding box is computed from.
FloorAndObjectsOnCanvas ==
    (/\ pc = "done" /\ result.svg.kind = "rendered"
     /\ FLess(FZero, WorldWidth) /\ FLess(FZero, WorldHeight))
    => /\ \A i \in 1..Len(floor_points) : OnCanvas(floor_points[i][1], floor_points[i][2])
       /\ \A i \in 1..Len(objects) : OnCanvas(objects[i].x, objects[i].y)

-----------------------------------------------------------------------------
(* views.upload_artifact and services.persist_artifact_chunk *)

\* Largest total_chunks of an upload.
MaxChunks == 3

\* Most upload_artifact requests served for one upload_token.
MaxUploads == 4

\* The data of a request: the chunk with index i carries the data i, a
\* single-part request (no chunk_index, written -1) the data -1.  Every
\* piece has size 1.

\* services.py lines 43-48: the data of the .part file once the chunk is
\* written.  Chunk 0 removes the file first; every chunk is appended to what
\* is there.
Written(chunk_index) ==
    (IF chunk_index = 0 THEN <<>> ELSE temp_file.data) \o <<chunk_index>>

\* services.py lines 50-54
IsFinal(chunk_index) == chunk_index = total_chunks - 1

\* services.py lines 64-88: the row of the token, created if need be, as the
\* save leaves it.
CompleteArtifact(file) == [status |-> "complete", bytes |-> Len(file), file |-> file]

\* A client starts to upload a file of total_chunks chunks.
InitUpload ==
    /\ IdleFloorplan
    /\ IdleView
    /\ IdleJobs
    /\ IdleRequest
    /\ IdleEnrich
    /\ total_chunks \in 1..MaxChunks
    /\ temp_file = NoFile
    /\ final_file = NoFile
    /\ artifact = NoArtifact
    /\ scan_status = "created"
    /\ uploads = <<>>
    /\ upload_response = 0

\* views.py lines 68-70: the first upload moves the session to UPLOADING.
Uploading == IF scan_status = "created" THEN "uploading" ELSE scan_status

\* One request with chunk_index and total_chunks.  The serializer rejects an
\* index that is not below total_chunks (lines 91-95 of serializers.py); the
\* view then writes the chunk, and finalizes when the index is the last one.
UploadChunk ==
    /\ Len(uploads) < MaxUploads
    /\ \E chunk_index \in 0..total_chunks :
          IF chunk_index >= total_chunks
          THEN /\ upload_response' = 400
               /\ UNCHANGED <<temp_file, final_file, artifact, scan_status, uploads>>
          ELSE /\ scan_status' = Uploading
               /\ uploads' = Append(uploads, chunk_index)
               /\ IF IsFinal(chunk_index)
                  THEN /\ temp_file' = NoFile
                       /\ final_file' = File(Written(chunk_index))
                       /\ artifact' = CompleteArtifact(Written(chunk_index))
                       /\ upload_response' = 201
                  ELSE /\ temp_file' = File(Written(chunk_index))
                       /\ UNCHANGED <<final_file, artifact>>
                       /\ upload_response' = 202
    /\ UNCHANGED total_chunks
    /\ UNCHANGED notUpload

\* One request without chunk_index and total_chunks (a single-part upload)
\* under the same token: its data is appended and the file is finalized.
UploadSinglePart ==
    /\ Len(uploads) < MaxUploads
    /\ scan_status' = Uploading
    /\ uploads' = Append(uploads, -1)
    /\ temp_file' = NoFile
    /\ final_file' = File(Written(-1))
    /\ artifact' = CompleteArtifact(Written(-1))
    /\ upload_response' = 201
    /\ UNCHANGED total_chunks
    /\ UNCHANGED notUpload

NextUpload ==
    \/ UploadChunk
    \/ UploadSinglePart

\* The upload_artifact requests of one session that share one upload_token,
\* served one after the other.
SpecUpload == InitUpload /\ [][NextUpload]_vars

-----------------------------------------------------------------------------
(* C28: chunked uploads *)

\* The chunks 0 .. total_chunks - 1 in index order.
AllChunksInOrder == [i \in 1..total_chunks |-> i - 1]

(* C28: whatever the order of the requests of one upload_token (chunks out   *)
(* of order, skipped or repeated), the artifact is COMPLETE only after every *)
(* chunk 0 .. total_chunks - 1 has been written, and the file of a COMPLETE  *)
(* artifact is the concatenation of the chunks 0 .. total_chunks - 1 in      *)
(* index order, each exactly once.                                           *)
C28_CompleteOnlyWhenWhole ==
    (artifact.status = "complete" /\ -1 \notin Range(uploads))
    => /\ \A i \in 0..(total_chunks - 1) : i \in Range(uploads)
       /\ artifact.file = AllChunksInOrder
       /\ final_file = File(AllChunksInOrder)

-----------------------------------------------------------------------------
(* views.start_processing and services.enqueue_processing_job *)

\* Most start_processing requests of one session, served concurrently.
MaxRequests == 3

Requesters == 1..MaxRequests

\* The rows of the session with status PENDING.
PendingJobs == { i \in 1..Len(job_rows) : job_rows[i] = "pending" }

\* Requests arrive for a session that has no job yet; each one carries its
\* auto_complete flag.
InitJobs ==
    /\ IdleFloorplan
    /\ IdleView
    /\ IdleUpload
    /\ IdleRequest
    /\ IdleEnrich
    /\ job_pc = [p \in Requesters |-> "get"]
    /\ auto_complete \in [Requesters -> BOOLEAN]
    /\ job = [p \in Requesters |-> 0]
    /\ job_rows = <<>>
    /\ session_status \in {"created", "uploading"}
    /\ job_response = [p \in Requesters |-> 0]

\* services.py lines 94-96, first half of get_or_create: the query for a
\* PENDING job of the session.  One row is returned as it is; no row sends
\* the request on to the insertion; more than one row raises
\* MultipleObjectsReturned, which leaves the view (500).
JobGet(p) ==
    /\ job_pc[p] = "get"
    /\ IF PendingJobs = {}
       THEN /\ job_pc' = [job_pc EXCEPT ![p] = "create"]
            /\ UNCHANGED <<job, job_response>>
       ELSE IF Cardinality(PendingJobs) = 1
       THEN /\ job' = [job EXCEPT ![p] = CHOOSE i \in PendingJobs : TRUE]
            /\ job_pc' = [job_pc EXCEPT ![p] = "session"]
            /\ UNCHANGED job_response
       ELSE /\ job_response' = [job_response EXCEPT ![p] = 500]
            /\ job_pc' = [job_pc EXCEPT ![p] = "done"]
            /\ UNCHANGED job
    /\ UNCHANGED <<auto_complete, job_rows, session_status>>
    /\ UNCHANGED notJobs

\* services.py lines 94-96, second half of get_or_create: the insertion of a
\* PENDING row.  No constraint of models.py or of the migration forbids a
\* second PENDING row of the session.
JobCreate(p) ==
    /\ job_pc[p] = "create"
    /\ job_rows' = Append(job_rows, "pending")
    /\ job' = [job EXCEPT ![p] = Len(job_rows) + 1]
    /\ job_pc' = [job_pc EXCEPT ![p] = "session"]
    /\ UNCHANGED <<auto_complete, session_status, job_response>>
    /\ UNCHANGED notJobs

\* services.py lines 97-98: the session is PROCESSING; views.py lines 105-112
\* answer 202 when auto_complete is not set.
JobSession(p) ==
    /\ job_pc[p] = "session"
    /\ session_status' = "processing"
    /\ IF auto_complete[p]
       THEN /\ job_pc' = [job_pc EXCEPT ![p] = "running"]
            /\ UNCHANGED job_response
       ELSE /\ job_pc' = [job_pc EXCEPT ![p] = "done"]
            /\ job_response' = [job_response EXCEPT ![p] = 202]
    /\ UNCHANGED <<auto_complete, job, job_rows>>
    /\ UNCHANGED notJobs

\* views.py lines 98-99: the job is RUNNING.
JobRunning(p) ==
    /\ job_pc[p] = "running"
    /\ job_rows' = [job_rows EXCEPT ![job[p]] = "running"]
    /\ job_pc' = [job_pc EXCEPT ![p] = "complete"]
    /\ UNCHANGED <<auto_complete, job, session_status, job_response>>
    /\ UNCHANGED notJobs

\* views.py line 101, models.py lines 119-124: mark_complete.
JobComplete(p) ==
    /\ job_pc[p] = "complete"
    /\ job_rows' = [job_rows EXCEPT ![job[p]] = "complete"]
    /\ job_pc' = [job_pc EXCEPT ![p] = "ready"]
    /\ UNCHANGED <<auto_complete, job, session_status, job_response>>
    /\ UNCHANGED notJobs

\* views.py lines 102-112: the session is READY and the request is answered.
JobReady(p) ==
    /\ job_pc[p] = "ready"
    /\ session_status' = "ready"
    /\ job_response' = [job_response EXCEPT ![p] = 202]
    /\ job_pc' = [job_pc EXCEPT ![p] = "done"]
    /\ UNCHANGED <<auto_complete, job, job_rows>>
    /\ UNCHANGED notJobs

NextJobs ==
    \/ \E p \in Requesters : JobGet(p)
    \/ \E p \in Requesters : JobCreate(p)
    \/ \E p \in Requesters : JobSession(p)
    \/ \E p \in Requesters : JobRunning(p)
    \/ \E p \in Requesters : JobComplete(p)
    \/ \E p \in Requesters : JobReady(p)

\* The start_processing requests of one session; the database statements of
\* different requests interleave in any order, one after the other included.
SpecJobs == InitJobs /\ [][NextJobs]_vars

-----------------------------------------------------------------------------
(* C30: the jobs of a session *)

(* C30: after any sequence of start_processing requests, concurrent ones    *)
(* whose lookup and creation interleave included, the session has at most   *)
(* one ProcessingJob in status PENDING, and the job returned to a request    *)
(* with auto_complete is COMPLETE.                                           *)
C30_AtMostOnePending ==
    job_pc # <<>> =>
        /\ Cardinality(PendingJobs) <= 1
        /\ \A p \in Requesters :
              (job_pc[p] = "done" /\ auto_complete[p] /\ job_response[p] = 202)
              => job_rows[job[p]] = "complete"

-----------------------------------------------------------------------------
(* perenual_service._perenual_request: one API request with its retries *)

\* Largest max_retries of a call; the default of the function is 3.
MaxRetries == 4

\* How an HTTP GET can end: a response that parses ("ok"), a response with
\* status 429, and the request errors (requests.exceptions.RequestException):
\* another error status (raise_for_status), a failed connection or a timeout,
\* and an error whose text contains "429".
Answers == {"ok", "429", "http_error", "connection_error", "error_with_429"}

InitRequest ==
    /\ IdleFloorplan
    /\ IdleView
    /\ IdleUpload
    /\ IdleJobs
    /\ IdleEnrich
    /\ req_pc = "loop"
    /\ max_retries \in 0..MaxRetries
    /\ attempt = 0
    /\ answers = <<>>
    /\ req_result = "none"

\* Variant: a failed attempt is retried whatever its number.
AttemptsRemain_always == TRUE

\* lines 39 and 51: attempt < max_retries - 1
AttemptsRemain == attempt < max_retries - 1

\* lines 38-45 and 50-56: what follows an attempt that did not return.  A
\* 429 response is retried while attempts remain, and raises RuntimeError
\* otherwise; a request error is retried while attempts remain unless its
\* text contains "429", and raises RuntimeError otherwise.
Retries(answer) ==
    IF answer = "429" THEN AttemptsRemain
    ELSE AttemptsRemain /\ answer # "error_with_429"

\* lines 33-56: one pass of the loop, with its HTTP GET.
Attempt ==
    /\ req_pc = "loop"
    /\ attempt < max_retries
    /\ \E answer \in Answers :
          /\ answers' = Append(answers, answer)
          /\ IF answer = "ok"
             THEN /\ req_result' = "json"
                  /\ req_pc' = "returned"
                  /\ UNCHANGED attempt
             ELSE IF Retries(answer)
             THEN /\ attempt' = attempt + 1
                  /\ UNCHANGED <<req_pc, req_result>>
             ELSE /\ req_result' = "RuntimeError"
                  /\ req_pc' = "raised"
                  /\ UNCHANGED attempt
    /\ UNCHANGED max_retries
    /\ UNCHANGED notRequest

\* line 58: the loop is over without a return.
Exhausted ==
    /\ req_pc = "loop"
    /\ attempt >= max_retries
    /\ req_result' = "RuntimeError"
    /\ req_pc' = "raised"
    /\ UNCHANGED <<max_retries, attempt, answers>>
    /\ UNCHANGED notRequest

NextRequest ==
    \/ Attempt
    \/ Exhausted

\* One call of _perenual_request.  Every GET has a timeout of 10 seconds and
\* every pause is finite, so a call that can take a step takes it.
SpecRequest == InitRequest /\ [][NextRequest]_vars /\ WF_vars(NextRequest)

-----------------------------------------------------------------------------
(* C26: the retries of _perenual_request *)

RequestOver == req_pc \in {"returned", "raised"}

(* C26: a call of _perenual_request makes at most max_retries HTTP GETs and  *)
(* ends: it returns the parsed JSON of the first attempt that is neither     *)
(* rate-limited nor failing, it goes on to another attempt only while        *)
(* attempts remain, and otherwise it raises RuntimeError.                    *)
C26_EndsWithinMaxRetries ==
    /\ [](/\ Len(answers) <= max_retries
          /\ req_pc = "loop" /\ answers # <<>> => Len(answers) < max_retries
          /\ req_pc = "returned" =>
                /\ req_result = "json"
                /\ answers[Len(answers)] = "ok"
                /\ \A i \in 1..(Len(answers) - 1) : answers[i] # "ok"
          /\ req_pc = "raised" =>
                /\ req_result = "RuntimeError"
                /\ \A i \in 1..Len(answers) : answers[i] # "ok")
    /\ <>RequestOver

\* A call with the default max_retries has returned the JSON of its third
\* attempt, after a 429 and a failed connection.
C26_Witness ==
    /\ req_pc = "returned"
    /\ max_retries = 3
    /\ answers = <<"429", "connection_error", "ok">>

-----------------------------------------------------------------------------
(* perenual_service.enrich_plant_with_perenual and its cache *)

\* Capacity of the cache in the model.  The decorator of line 90 gives the
\* cache of the code 256 entries; the model keeps the policy (least recently
\* used entry out) and scales the capacity down.
maxsize == 2

\* Most calls of enrich_plant_with_perenual, calls of clear_cache and changes
\* of the data behind the API in a behaviour.
MaxEvents == 4

\* The words looked for in the answers of the API.
UPGRADE_PLANS == <<"U", "p", "g", "r", "a", "d", "e", " ", "P", "l", "a", "n", "s">>
DAILY == <<"d", "a", "i", "l", "y">>
FREQUENT == <<"f", "r", "e", "q", "u", "e", "n", "t">>
AVERAGE == <<"a", "v", "e", "r", "a", "g", "e">>
MODERATE == <<"m", "o", "d", "e", "r", "a", "t", "e">>
MINIMUM == <<"m", "i", "n", "i", "m", "u", "m">>
RARE == <<"r", "a", "r", "e">>

\* sub in s
Contains(s, sub) ==
    \E i \in 1..(Len(s) - Len(sub) + 1) : SubSeq(s, i, i + Len(sub) - 1) = sub

\* s.lower()
Lower(s) == [i \in 1..Len(s) |-> ToLower(s[i])]

\* A JSON object with the keys value and unit, and a JSON integer.
Benchmark(value, unit) == [t |-> "map", v |-> <<value, unit>>]
IntVal(n) == [t |-> "int", v |-> <<n>>]

\* lines 234-244: watering_text.  A missing watering_general_benchmark is
\* read as the default {}, which is a dict.
WateringText(details) ==
    LET FromBenchmark(watering_value, watering_unit) ==
            IF Truthy(watering_value)
            THEN Str(watering_value.v \o <<" ">> \o watering_unit.v)
            ELSE Null
        Text(watering_benchmark) ==
            IF watering_benchmark.t = "map"
            THEN FromBenchmark(watering_benchmark.v[1],
                               Get(watering_benchmark.v[2], Str(<<>>)))
            ELSE IF /\ details.watering.t = "str"
                    /\ ~Contains(details.watering.v, UPGRADE_PLANS)
            THEN details.watering
            ELSE Null
    IN  Text(Get(details.watering_general_benchmark, Benchmark(Absent, Absent)))

\* lines 247-255: watering_interval
WateringInterval(watering_text) ==
    LET Days(watering_lower) ==
            IF Contains(watering_lower, DAILY) \/ Contains(watering_lower, FREQUENT)
            THEN IntVal(1)
            ELSE IF Contains(watering_lower, AVERAGE) \/ Contains(watering_lower, MODERATE)
            THEN IntVal(3)
            ELSE IF Contains(watering_lower, MINIMUM) \/ Contains(watering_lower, RARE)
            THEN IntVal(7)
            ELSE Null
    IN  IF Truthy(watering_text) THEN Days(Lower(watering_text.v)) ELSE Null

\* None for a missing key, the value otherwise (dict.get).
OrNone(field) == Get(field, Null)

\* lines 107-121, 298-312 and 349-363: the dictionary of a failure.
Failure(name, error) ==
    [name |-> Str(name), perenual_id |-> Null, common_name |-> Null,
     scientific_name |-> Null, watering_general_benchmark |-> Null,
     watering_interval_days |-> Null, sunlight |-> Null,
     maintenance_category |-> Null, poison_human |-> Null, poison_pets |-> Null,
     default_image_url |-> Null, care_notes |-> Null, error |-> Str(<<error>>)]

\* lines 183-196: the dictionary of a match without id.
NoSpeciesId(normalized_name, best_match) ==
    [name |-> Str(normalized_name), perenual_id |-> Null,
     common_name |-> OrNone(best_match.common_name),
     scientific_name |-> OrNone(best_match.scientific_name),
     watering_general_benchmark |-> Null, watering_interval_days |-> Null,
     sunlight |-> Null, maintenance_category |-> Null, poison_human |-> Null,
     poison_pets |-> Null, default_image_url |-> Null,
     error |-> Str(<<"No species ID found">>)]

\* lines 257-295: the dictionary of a success, for details that carry a
\* name (without parentheses) and watering data, and nothing about the image,
\* the sunlight, the maintenance or the toxicity (these entries are None).
Enriched(normalized_name, best_match, details) ==
    [name |-> Str(normalized_name), perenual_id |-> IntVal(best_match.id),
     common_name |-> IF Truthy(details.common_name)
                     THEN Str(Strip(details.common_name.v)) ELSE Null,
     scientific_name |-> IF Truthy(details.scientific_name) THEN details.scientific_name
                         ELSE OrNone(best_match.scientific_name),
     watering_general_benchmark |-> WateringText(details),
     watering_interval_days |-> WateringInterval(WateringText(details)),
     sunlight |-> Null, maintenance_category |-> Null, poison_human |-> Null,
     poison_pets |-> Null, default_image_url |-> Null, error |-> Null]

\* An answer of the API to a request: the request fails after its retries,
\* or it returns a document.
Raises == [raises |-> TRUE, candidates |-> <<>>]
Found(candidates) == [raises |-> FALSE, candidates |-> candidates]
Failing == [raises |-> TRUE, doc |-> <<>>]
Details(doc) == [raises |-> FALSE, doc |-> doc]

\* lines 101-312: _enrich_plant_cached against the data srv of the API: the
\* dictionary it returns and the number of API requests it makes.  A search
\* that returns one candidate selects it on every branch of lines 127-179.
_enrich_plant_cached(normalized_name, srv) ==
    IF srv.search.raises
    THEN [result |-> Failure(normalized_name, "Enrichment failed"), requests |-> 1]
    ELSE IF srv.search.candidates = <<>>
    THEN [result |-> Failure(normalized_name, "No Perenual match found"), requests |-> 1]
    ELSE IF srv.search.candidates[1].id = 0
    THEN [result |-> NoSpeciesId(normalized_name, srv.search.candidates[1]),
          requests |-> 1]
    ELSE IF srv.details.raises
    THEN [result |-> Failure(normalized_name, "Enrichment failed"), requests |-> 2]
    ELSE [result |-> Enriched(normalized_name, srv.search.candidates[1], srv.details.doc),
          requests |-> 2]

\* The names the callers pass: the empty name, a blank one, and names that
\* differ in case only or not only.
PlantNames == { <<>>, <<" ">>, <<"a">>, <<"A">>, <<"b">> }

\* A candidate of the search: without parentheses in its name, without
\* scientific name; an id of 0 is an id that is missing.
Candidate(id) == [id |-> id, common_name |-> Str(<<"f">>), scientific_name |-> Absent]

\* The details of a species, as far as the watering goes.
DetailDocs ==
    { [common_name |-> Str(<<"f", " ">>), scientific_name |-> Str(<<"g">>),
       watering_general_benchmark |-> b, watering |-> w] :
        b \in { Absent, Benchmark(Str(<<"7">>), Str(<<"d">>)), Str(UPGRADE_PLANS) },
        w \in { Absent, Str(<<"F">> \o Tail(FREQUENT)), Str(<<"A">> \o Tail(AVERAGE)),
                Str(<<"M">> \o Tail(MINIMUM)) } }

\* The API out of reach.
Down == [search |-> Raises, details |-> Failing]

\* What the API may hold.
Servers ==
    { Down,
      [search |-> Found(<<>>), details |-> Failing],
      [search |-> Found(<<Candidate(0)>>), details |-> Failing],
      [search |-> Found(<<Candidate(7)>>), details |-> Failing] }
    \cup { [search |-> Found(<<Candidate(7)>>), details |-> Details(doc)] :
             doc \in DetailDocs }

\* Variant: the key of the cache keeps the case of the name.
Normalize_caseSensitive(plant_name) == Strip(plant_name)

\* line 366: plant_name.strip().lower()
Normalize(plant_name) == Lower(Strip(plant_name))

\* functools.lru_cache: the entries, the least recently used one first.
Cached(key) == \E i \in 1..Len(lru) : lru[i].key = key
CachedValue(key) == lru[CHOOSE i \in 1..Len(lru) : lru[i].key = key].value
Without(key) == SelectSeq(lru, LAMBDA e : e.key # key)
Touched(key) == Append(Without(key), [key |-> key, value |-> CachedValue(key)])
Inserted(key, value) ==
    IF Len(lru) >= maxsize
    THEN Append(Tail(lru), [key |-> key, value |-> value])
    ELSE Append(lru, [key |-> key, value |-> value])

\* An entry of the history: a call with what it returned and the number of
\* API requests it made, or a call of clear_cache.
EnrichCall(plant_name, value, gets) ==
    [kind |-> "call", name |-> plant_name, result |-> value, requests |-> gets]
Clear == [kind |-> "clear"]

InitEnrich ==
    /\ IdleFloorplan
    /\ IdleView
    /\ IdleUpload
    /\ IdleJobs
    /\ IdleRequest
    /\ server \in Servers
    /\ lru = <<>>
    /\ events = <<>>

\* lines 348-367: enrich_plant_with_perenual(plant_name)
Enrich ==
    /\ Len(events) < MaxEvents
    /\ \E plant_name \in PlantNames :
         \E normalized \in {Normalize(plant_name)} :
           IF plant_name = <<>>
           THEN /\ events' = Append(events,
                        EnrichCall(plant_name, Failure(<<>>, "Empty plant name provided"), 0))
                /\ lru' = lru
           ELSE IF Cached(normalized)
           THEN /\ events' = Append(events, EnrichCall(plant_name, CachedValue(normalized), 0))
                /\ lru' = Touched(normalized)
           ELSE \E fresh \in {_enrich_plant_cached(normalized, server)} :
                  /\ events' = Append(events,
                          EnrichCall(plant_name, fresh.result, fresh.requests))
                  /\ lru' = Inserted(normalized, fresh.result)
    /\ UNCHANGED server
    /\ UNCHANGED notEnrich

\* lines 370-372: clear_cache()
ClearCache ==
    /\ Len(events) < MaxEvents
    /\ lru' = <<>>
    /\ events' = Append(events, Clear)
    /\ UNCHANGED server
    /\ UNCHANGED notEnrich

\* The API stops answering (line 103 and line 199 raise from then on).
ApiFails ==
    /\ server # Down
    /\ server' = Down
    /\ UNCHANGED <<lru, events>>
    /\ UNCHANGED notEnrich

NextEnrich ==
    \/ Enrich
    \/ ClearCache
    \/ ApiFails

SpecEnrich == InitEnrich /\ [][NextEnrich]_vars

-----------------------------------------------------------------------------
(* Claims about the plant enrichment *)

\* The keys of the schema (lines 326-339).
EnrichmentKeys ==
    { "name", "perenual_id", "common_name", "scientific_name",
      "watering_general_benchmark", "watering_interval_days", "sunlight",
      "maintenance_category", "poison_human", "poison_pets",
      "default_image_url", "care_notes", "error" }

\* The calls of enrich_plant_with_perenual in the history.
IsCall(i) == events[i].kind = "call"

\* C23: every dictionary that enrich_plant_with_perenual returns has the
\* thirteen keys of the schema, care_notes among them, on the success path
\* and on every failure path.
C23_SameKeys ==
    \A i \in 1..Len(events) :
        IsCall(i) => DOMAIN events[i].result = EnrichmentKeys

\* The step is a call that fetched the details of a species.
FetchedDetails ==
    /\ Len(events') = Len(events) + 1
    /\ events'[Len(events')].kind = "call"
    /\ events'[Len(events')].requests = 2
    /\ ~server.details.raises

\* C24: details with a textual watering value and without the field
\* watering_general_benchmark give a watering_interval_days derived from the
\* text: 1 for frequent or daily, 3 for average or moderate, 7 for minimum or
\* rare.
C24_IntervalFromText ==
    [][ ( /\ FetchedDetails
          /\ server.details.doc.watering_general_benchmark = Absent
          /\ server.details.doc.watering.t = "str" )
        => events'[Len(events')].result.watering_interval_days
             = WateringInterval(server.details.doc.watering) ]_vars

\* Two names are equal after trimming and lower-casing.
SameName(a, b) == Lower(Strip(a)) = Lower(Strip(b))

\* clear_cache is not called between the calls i and j.
NoClearBetween(i, j) == \A k \in (i + 1)..(j - 1) : events[k].kind # "clear"

\* The call j comes after the call i, for the same name after trimming and
\* lower-casing, with no clear_cache between them.
LaterCall(i, j) ==
    /\ i < j
    /\ IsCall(i)
    /\ IsCall(j)
    /\ SameName(events[i].name, events[j].name)
    /\ NoClearBetween(i, j)

\* The call j returns what the call i returned, without an API request.
ServedFromCache(i, j) ==
    /\ events[j].result = events[i].result
    /\ events[j].requests = 0

\* C22 as stated: after a first call for a name, any later call with a name
\* equal after trimming and lower-casing returns the same result and issues
\* no further HTTP request, until clear_cache is called.
C22_CachedUntilClear ==
    \A i, j \in 1..Len(events) : LaterCall(i, j) => ServedFromCache(i, j)

\* The other names, trimmed and lower-cased, that were enriched between the
\* calls i and j.
OtherNamesBetween(i, j) ==
    { Lower(Strip(events[k].name)) :
        k \in { n \in (i + 1)..(j - 1) :
                  /\ IsCall(n)
                  /\ events[n].name # <<>>
                  /\ ~SameName(events[n].name, events[i].name) } }

\* C22, amended: the same for two calls with a name that is not the empty
\* string, as long as fewer other names than the cache has entries were
\* enriched between the two calls.
C22_CachedWhileRecent ==
    \A i, j \in 1..Len(events) :
        ( /\ LaterCall(i, j)
          /\ events[i].name # <<>>
          /\ events[j].name # <<>>
          /\ Cardinality(OtherNamesBetween(i, j)) < maxsize )
        => ServedFromCache(i, j)

\* 'a' is enriched with two API requests, another name is enriched, the API
\* fails, and 'A' is then answered from the cache.
C22_Witness ==
    \E i, j \in 1..Len(events) :
        /\ LaterCall(i, j)
        /\ events[i].name = <<"a">>
        /\ events[j].name = <<"A">>
        /\ events[i].requests = 2
        /\ Cardinality(OtherNamesBetween(i, j)) = 1
        /\ server = Down
        /\ ServedFromCache(i, j)

====
